---- MODULE Spec2Model ----
(***************************************************************************)
(* Incident lifecycle orchestrator of AWS-Incident-Response:               *)
(*   Intake     src/lambda/supervisor/orchestrator.py                      *)
(*   Resolution src/lambda/resolver/handler.py                             *)
(*   Watchdog   src/lambda/watchdog/handler.py                             *)
(* The three roles share the incident-state table (DynamoDB) and the       *)
(* resolver-trigger topic (SNS).  Every operation is keyed by one incident *)
(* id and never touches the item of another id, so the model follows one   *)
(* incident id; a table scan returns that item or nothing.                 *)
(*                                                                         *)
(* Time: the code compares updated_at with "now - threshold".  The model   *)
(* keeps, for the item, age = now - updated_at in minutes, saturating at   *)
(* AgeCap (above every threshold), so that time never has to stop.         *)
(*                                                                         *)
(* One action is one network call of a handler (state store or bus)        *)
(* together with the local code around it: the code that leads from the    *)
(* previous call to it and the return that follows it.  The reasoning call *)
(* (run_agent) touches none of the tables; its result is drawn when the    *)
(* handler makes the call that follows it.  A worker may crash between two *)
(* calls.                                                                  *)
(*                                                                         *)
(* Reasoning loop: src/lambda/supervisor/agent.py and                      *)
(* src/lambda/resolver/agent.py.  In the specifications of the pipeline    *)
(* the result of run_agent is any result of the shape the handler reads    *)
(* (an outcome, none, AgentError, another exception).  AgentSpec runs      *)
(* run_agent itself, attempt by attempt and graph step by graph step, and  *)
(* hands its result to the handler the way the code under src/ does.       *)
(*                                                                         *)
(* Evidence bundle and audit item: truncate_to_budget and _store_audit are *)
(* local computations.  TruncateSpec runs truncate_to_budget pass by pass  *)
(* on bundles given by the lengths of their serialized parts; AuditSpec    *)
(* runs _store_audit on reasoning chains given by the serialized size of   *)
(* each step.  Sizes are the characters json.dumps produces.               *)
(***************************************************************************)
EXTENDS Integers, FiniteSets, Sequences, TLC

\* ---------------------------------------------------------------- bounds
\* concurrent invocations of one role in the specifications that race them
NumIntake == 2
NumResolver == 2
NumWatchdog == 2
\* tool calls in one response of the reasoning service
MaxToolCalls == 2
\* log events, inline policies and statements of a policy in an evidence bundle
MaxEvents == 3
MaxPolicies == 1
MaxStatements == 2
\* calls of truncate_to_budget on one bundle
MaxTruncateCalls == 2
\* steps of a reasoning chain handed to _store_audit
MaxSteps == 6

\* ------------------------------------------------------ program constants
STALE_THRESHOLD_MINUTES == 10
RETRY_THRESHOLD_MINUTES == 5
MAX_RETRIES == 2
INTAKE_STALE_MINUTES == 5
\* run_agent: attempts of one reasoning call
max_retries == 2
\* orchestrator.py: default of the TOKEN_BUDGET environment variable
TOKEN_BUDGET == 6000
\* _store_audit: ceiling on the bytes of the serialized reasoning chain
AUDIT_CEILING == 350000
\* granularity of the clock and saturation of the age
TickMinutes == 5
AgeCap == 15

IW == 1..NumIntake
RW == 1..NumResolver
WW == 1..NumWatchdog

Status == {"RECEIVED", "INVESTIGATING", "DIAGNOSED", "RESOLVING",
           "PROPOSED", "PROPOSAL_FAILED", "FAILED"}

\* categories classify_error can put on an AgentError (two of them kept)
Categories == {"mcp_connection", "bedrock_auth"}

\* what run_agent hands back to the handler: a result with an outcome
\* (diagnosis, proposal), a result without, AgentError, another exception
AgentOutcomes == {"outcome", "none", "agent_error", "exception"}

VARIABLES
    state,      \* the item of the incident in table incident-state
    context,    \* the item in table incident-context: "none" or "diagnosis"
    audit,      \* the item in table incident-audit: "none", "supervisor", "resolver"
    bus,        \* handoff messages published and not yet consumed, by payload
    published,  \* number of handoff messages the Watchdog has published
    ack,        \* what the handler that returned in this step returned; "none" otherwise
    ipc, ilost, \* Intake workers: the call to make next; lost a CAS in this invocation
    unknown,    \* per Intake worker: the item "unknown#<uuid>" of its last malformed event
    rpc, rlost, \* Resolution workers
    wpc, wsnap, \* Watchdog workers: the call to make next; retry_count read by the scan
    agent,      \* the run_agent call in progress: its loop variables and the graph state
    truncation, \* the truncate_to_budget call in progress: its arguments, its locals, its place
    transcript  \* the _store_audit call in progress: the reasoning chain given and the item written

vars == <<state, context, audit, bus, published, ack, ipc, ilost, unknown, rpc, rlost, wpc, wsnap, agent,
          truncation, transcript>>

storeVars == <<state, context, audit>>
intakeVars == <<ipc, ilost>>
resolverVars == <<rpc, rlost>>
watchdogVars == <<wpc, wsnap>>

\* ------------------------------------------------------------ state store
NoItem == [exists |-> FALSE, status |-> "NONE", age |-> 0, retry_count |-> 0,
           error_reason |-> "", error_category |-> "", proposal |-> FALSE]

\* get_state that finds no item
get_state_none(item) == NoItem

\* get_state: None when there is no item
get_state(item) == item

\* write_initial_state without its ConditionExpression: the put replaces the item
write_initial_state_unconditional(item) ==
    [NoItem EXCEPT !.exists = TRUE, !.status = "RECEIVED"]

\* write_initial_state: put_item with attribute_not_exists(incident_id)
write_initial_state(item) ==
    IF ~item.exists
    THEN [NoItem EXCEPT !.exists = TRUE, !.status = "RECEIVED"]
    ELSE item

\* the ConditionExpression "#s = :from_status" of a conditional update
cas_ok(item, from_status) == item.exists /\ item.status = from_status

\* transition_state without its ConditionExpression: the update is applied whatever the stored status
transition_state_unconditional(item, from_status, to_status, error_reason, error_category) ==
    IF item.exists
    THEN [item EXCEPT !.status = to_status,
                      !.age = 0,
                      !.error_reason = IF error_reason # "" THEN error_reason ELSE @,
                      !.error_category = IF error_category # "" THEN error_category ELSE @]
    ELSE item

\* transition_state that refreshes updated_at before the condition is evaluated
transition_state_touch(item, from_status, to_status, error_reason, error_category) ==
    IF cas_ok(item, from_status)
    THEN [item EXCEPT !.status = to_status,
                      !.age = 0,
                      !.error_reason = IF error_reason # "" THEN error_reason ELSE @,
                      !.error_category = IF error_category # "" THEN error_category ELSE @]
    ELSE IF item.exists THEN [item EXCEPT !.age = 0] ELSE item

\* transition_state that records a failed proposal with the failure status of stage 1
transition_state_failed(item, from_status, to_status, error_reason, error_category) ==
    IF cas_ok(item, from_status)
    THEN [item EXCEPT !.status = IF to_status = "PROPOSAL_FAILED" THEN "FAILED" ELSE to_status,
                      !.age = 0,
                      !.error_reason = IF error_reason # "" THEN error_reason ELSE @,
                      !.error_category = IF error_category # "" THEN error_category ELSE @]
    ELSE item

\* transition_state: conditional update of status, updated_at and the error fields
transition_state(item, from_status, to_status, error_reason, error_category) ==
    IF cas_ok(item, from_status)
    THEN [item EXCEPT !.status = to_status,
                      !.age = 0,
                      !.error_reason = IF error_reason # "" THEN error_reason ELSE @,
                      !.error_category = IF error_category # "" THEN error_category ELSE @]
    ELSE item

\* the staleness test with the Watchdog's threshold
intake_stale_watchdog(item) == item.age > STALE_THRESHOLD_MINUTES

\* the staleness test with the bound included: updated_at <= now - 5 minutes
intake_stale_inclusive(item) == item.age >= INTAKE_STALE_MINUTES

\* _dedup_or_recover's staleness test: updated_at < now - 5 minutes
intake_stale(item) == item.age > INTAKE_STALE_MINUTES

\* --------------------------------------------------------- reasoning loop
\* src/lambda/supervisor/agent.py (Intake) and src/lambda/resolver/agent.py
\* (Resolution): run_agent, its attempts, and the graph each attempt runs.

\* a tool call of a response of the reasoning service:
\*   name      "submit" (submit_diagnosis / submit_proposal), "evidence" (a tool
\*             with an entry in TOOL_ARG_SCHEMAS) or "unregistered"
\*   args      whether the arguments pass the schema of the tool named
\*   response  what the evidence provider answers when it is called: a JSON object
\*             the response schema accepts ("valid"), text that is not JSON, a JSON
\*             object the schema rejects, JSON that is not an object, or the call
\*             raises ConnectionError; "none" where the provider is not called
ToolCalls ==
    {[name |-> "submit", args |-> a, response |-> "none"] : a \in {"valid", "invalid"}}
    \cup {[name |-> "evidence", args |-> "invalid", response |-> "none"],
          [name |-> "unregistered", args |-> "valid", response |-> "none"]}
    \cup {[name |-> "evidence", args |-> "valid", response |-> r] :
             r \in {"valid", "not_json", "schema_mismatch", "not_object", "raises"}}

\* the responses of the reasoning service: plain text (no tool call) or up to
\* MaxToolCalls tool calls
Responses ==
    {<<>>} \cup UNION {[1..n -> ToolCalls] : n \in 1..MaxToolCalls}

\* an exception: its class, and for a BaseExceptionGroup its sub-exceptions
Exc(cls) == [cls |-> cls, exceptions |-> <<>>]
ExceptionGroup(subs) == [cls |-> "ExceptionGroup", exceptions |-> subs]

\* what the connection to the evidence server can raise (sse_client, ClientSession,
\* session.initialize wrapped into McpInitError)
ConnectFailures ==
    {Exc("ConnectionError"), Exc("TimeoutError"), Exc("McpInitError"),
     ExceptionGroup(<<Exc("ConnectionError")>>)}

\* what llm.ainvoke can raise: botocore ClientError by error code, or another exception
ReasoningFailures ==
    {Exc("AccessDeniedException"), Exc("ThrottlingException"),
     Exc("ValidationException"), Exc("RuntimeError"),
     ExceptionGroup(<<Exc("AccessDeniedException")>>)}

\* the exception classify_error looks at: the first leaf of an exception group
RECURSIVE first_exception(_)
first_exception(exc) ==
    IF exc.cls = "ExceptionGroup" THEN first_exception(exc.exceptions[1]) ELSE exc

\* classify_error whose authorization codes fall through to the transient ones
classify_error_auth_transient(exc) ==
    LET cls == first_exception(exc).cls IN
    IF cls \in {"TimeoutError", "ConnectionError", "OSError"} THEN "mcp_connection"
    ELSE IF cls = "McpInitError" THEN "mcp_init"
    ELSE IF cls \in {"AccessDeniedException", "UnauthorizedException",
                     "ThrottlingException", "ServiceUnavailableException",
                     "ModelTimeoutException"}
    THEN "bedrock_transient"
    ELSE "unknown"

\* classify_error: the category of the AgentError an exception is mapped to
classify_error(exc) ==
    LET cls == first_exception(exc).cls IN
    IF cls \in {"TimeoutError", "ConnectionError", "OSError"} THEN "mcp_connection"
    ELSE IF cls = "McpInitError" THEN "mcp_init"
    ELSE IF cls \in {"AccessDeniedException", "UnauthorizedException"} THEN "bedrock_auth"
    ELSE IF cls \in {"ThrottlingException", "ServiceUnavailableException",
                     "ModelTimeoutException"}
    THEN "bedrock_transient"
    ELSE "unknown"

\* the permanent categories without the conservative default
PERMANENT_CATEGORIES_auth_only == {"bedrock_auth"}

PERMANENT_CATEGORIES == {"bedrock_auth", "unknown"}

\* the recursion limits of the two graphs exchanged
RECURSION_LIMIT_exchanged(stage) == IF stage = "intake" THEN 8 ELSE 12

\* RECURSION_LIMIT: 12 in supervisor/agent.py, 8 in resolver/agent.py
RECURSION_LIMIT(stage) == IF stage = "intake" THEN 12 ELSE 8

\* validate_tool_args: TRUE when the arguments are accepted; KeyError for a name
\* without a schema and ValidationError otherwise, both caught by execute_tools
validate_tool_args(tc) == tc.name = "evidence" /\ tc.args = "valid"

\* validate_tool_response: the model, an error string, or the TypeError of
\* schema(**data) when the JSON is not an object
validate_tool_response(tc) ==
    CASE tc.response = "valid" -> "model"
      [] tc.response = "not_json" -> "Invalid JSON response"
      [] tc.response = "schema_mismatch" -> "Response validation failed"
      [] tc.response = "not_object" -> "TypeError"

\* execute_tools, one iteration of its loop: the exception that leaves it, or "none"
tool_call_raises(tc) ==
    IF tc.name = "submit" \/ ~validate_tool_args(tc) THEN "none"
    ELSE IF tc.response = "raises" THEN "ConnectionError"
    ELSE IF validate_tool_response(tc) = "TypeError" THEN "TypeError"
    ELSE "none"

\* execute_tools, one iteration of its loop: the ToolMessage appended
tool_message(tc) ==
    IF ~validate_tool_args(tc) THEN "error: Invalid arguments"
    ELSE IF validate_tool_response(tc) = "model" THEN "raw_response"
    ELSE "error: " \o validate_tool_response(tc)

\* the tool calls of a message that execute_tools does not skip
RECURSIVE evidence_calls(_)
evidence_calls(calls) ==
    IF calls = <<>> THEN <<>>
    ELSE IF Head(calls).name = "submit" THEN evidence_calls(Tail(calls))
    ELSE <<Head(calls)>> \o evidence_calls(Tail(calls))

\* number of the leading calls of a sequence that raise nothing
RECURSIVE completed_calls(_)
completed_calls(calls) ==
    IF calls = <<>> \/ tool_call_raises(Head(calls)) # "none" THEN 0
    ELSE 1 + completed_calls(Tail(calls))

\* route_after_reason of supervisor/agent.py: no nudge, plain text ends the graph
supervisor_route_after_reason(calls) ==
    IF calls = <<>> THEN "end"
    ELSE IF \E i \in DOMAIN calls : calls[i].name = "submit" THEN "submit"
    ELSE "tools"

\* route_after_reason of resolver/agent.py
resolver_route_after_reason(calls, proposal, nudged) ==
    IF calls = <<>> THEN (IF ~proposal /\ ~nudged THEN "nudge" ELSE "end")
    ELSE IF \E i \in DOMAIN calls : calls[i].name = "submit" THEN "submit"
    ELSE "tools"

\* the first submission call of a message: the one extract_diagnosis / extract_proposal reads
first_submit(calls) ==
    calls[CHOOSE i \in DOMAIN calls :
              calls[i].name = "submit" /\ \A j \in 1..(i - 1) : calls[j].name # "submit"]

\* no run_agent call in progress
NoRun == [stage |-> "none", pc |-> "idle", attempt |-> 0, calls |-> 0, sleeps |-> <<>>,
          steps |-> 0, nudged |-> FALSE, nudges |-> 0, deadline_near |-> FALSE,
          last |-> <<>>, tool_messages |-> <<>>, provider_calls |-> 0,
          result |-> "none", category |-> "", raised |-> "none"]

\* ----------------------------------------------------- context truncation
\* src/lambda/supervisor/orchestrator.py: estimate_tokens, the three reduction passes
\* and truncate_to_budget.  estimate_tokens is len(json.dumps(data)) // 4, so the evidence
\* bundle is kept by the lengths, in characters, of the parts of its serialization:
\*   rest      everything that no pass changes: the incident, the keys, the separators,
\*             the other fields of the tool responses
\*   logs      tools has no "cloudwatch_logs" ("absent"), it is not a dict or has no
\*             "events" ("other", its characters are in rest), or it has ("events")
\*   events    the serialized length of each log event, oldest first
\*   iam       the same for "iam_policy" and its "inline_policies"
\*   policies  the inline policy documents
\*   config    the serialized length of tools["lambda_config"], -1 when it is absent

\* sum of the numbers of a sequence
RECURSIVE Sum(_)
Sum(lens) == IF lens = <<>> THEN 0 ELSE Head(lens) + Sum(Tail(lens))

\* len(json.dumps(a list)) from the serialized lengths of its elements: "[", ", ", "]"
JsonList(lens) == 2 + Sum(lens) + (IF Len(lens) > 0 THEN 2 * (Len(lens) - 1) ELSE 0)

\* statements of a policy document: sid is the length of the Sid (-1: the statement has
\* none), chars the serialized length of the statement; {"Sid": "Allow", "Effect": ...},
\* {"Sid": "Allow"} and {}
Statements == {[sid |-> 5, chars |-> 120], [sid |-> 5, chars |-> 16], [sid |-> -1, chars |-> 2]}

\* inline policy documents: a dict with "Statement" ("document"; extra is the length of
\* its other keys, 25 for "Version": "2012-10-17"), or a value without "Statement" ("other")
PolicyDocs ==
    {[kind |-> "other", extra |-> 25, statements |-> <<>>]}
      \cup {[kind |-> "document", extra |-> e, statements |-> st] :
               e \in {0, 25},
               st \in UNION {[1..n -> Statements] : n \in 0..MaxStatements}}

\* len(json.dumps(doc)) of a policy document; a document the second pass has collapsed
\* is {"StatementSids": [...]} with the Sid strings, "unnamed" for a statement without Sid
DocChars(doc) ==
    CASE doc.kind = "other" -> doc.extra
      [] doc.kind = "document" ->
            15 + doc.extra + JsonList([i \in DOMAIN doc.statements |-> doc.statements[i].chars])
      [] doc.kind = "sids" ->
            19 + JsonList([i \in DOMAIN doc.statements |->
                              IF doc.statements[i].sid >= 0 THEN doc.statements[i].sid + 2 ELSE 9])

\* len(json.dumps({"dropped": True}))
DroppedChars == 17

\* the evidence bundles gather_context can hand to truncate_to_budget
Bundles ==
    [rest     : {80, 700},
     logs     : {"events"},
     events   : UNION {[1..n -> {30, 200}] : n \in 0..MaxEvents},
     iam      : {"policies"},
     policies : UNION {[1..n -> PolicyDocs] : n \in 0..MaxPolicies},
     config   : {-1, 2, 300}]
      \cup [rest : {80, 700}, logs : {"absent", "other"}, events : {<<>>},
            iam : {"absent", "other"}, policies : {<<>>}, config : {-1, 2, 300}]

\* token budgets truncate_to_budget is called with
Budgets == {0, 20, 60, 150, TOKEN_BUDGET}

\* len(json.dumps(context)) of an evidence bundle
Chars(bundle) ==
    bundle.rest
      + (IF bundle.logs = "events" THEN JsonList(bundle.events) ELSE 0)
      + Sum([i \in DOMAIN bundle.policies |-> DocChars(bundle.policies[i])])
      + (IF bundle.config >= 0 THEN bundle.config ELSE 0)

\* estimate_tokens
estimate_tokens(bundle) == Chars(bundle) \div 4

\* the details dict of truncate_to_budget: {} (events_dropped -1: no "cloudwatch_logs" key)
NoDetails == [skipped |-> FALSE, events_dropped |-> -1, trimmed |-> FALSE, dropped |-> FALSE]

\* _trim_iam_to_sids, the for loop: a document with "Statement" becomes the list of its Sids
trim_iam_to_sids(policies) ==
    [i \in DOMAIN policies |->
        IF policies[i].kind = "document"
        THEN [kind |-> "sids", extra |-> 0, statements |-> policies[i].statements]
        ELSE policies[i]]

\* no truncate_to_budget call in progress
NoTruncation == [pc |-> "idle", budget |-> 0, input |-> <<>>, context |-> <<>>,
                 details |-> NoDetails, original_count |-> 0, calls |-> 0]

\* ---------------------------------------------------------- audit storage
\* _store_audit of orchestrator.py and of resolver/handler.py: a step of the reasoning
\* chain is [id, bytes], bytes being the length of its indented serialization.

Min1(n) == IF n < 1 THEN n ELSE 1
Max1(n) == IF n < 1 THEN 1 ELSE n

\* len(json.dumps(chain, indent=2).encode()): "[\n", the steps joined by ",\n", "\n]"
ChainBytes(chain) ==
    IF chain = <<>> THEN 2
    ELSE 2 + Sum([i \in DOMAIN chain |-> chain[i].bytes]) + 2 * (Len(chain) - 1) + 2

\* reasoning_chain[:1]
FirstStep(chain) == SubSeq(chain, 1, Min1(Len(chain)))

\* reasoning_chain[-3:]
LastThree(chain) == SubSeq(chain, Max1(Len(chain) - 2), Len(chain))

\* serialized sizes a step is drawn from: a short message, the 100 KB class of a long
\* tool result, and a step that is over the ceiling on its own
StepBytes == {1000, 120000, 400000}

\* the reasoning chains handed to _store_audit: step i carries its position as id
Chains ==
    UNION {[1..n -> StepBytes] : n \in 0..MaxSteps}

ChainOf(sizes) == [i \in DOMAIN sizes |-> [id |-> i, bytes |-> sizes[i]]]

\* no _store_audit call in progress
NoAudit == [pc |-> "idle", writer |-> "none", chain |-> <<>>, usage |-> 0, stored |-> <<>>,
            reasoning_truncated |-> FALSE, has_chain |-> FALSE, step_count |-> 0,
            llm_calls |-> 0]

\* _store_audit: the item put to incident-audit for a call (reasoning_chain, token_usage);
\* an attribute the code leaves out of the item keeps its value of NoAudit
store_audit(call) ==
    LET over == ChainBytes(call.chain) > AUDIT_CEILING
        kept == IF over THEN FirstStep(call.chain) \o LastThree(call.chain) ELSE call.chain
    IN  [call EXCEPT !.pc = "stored",
                     !.stored = IF call.chain = <<>> THEN <<>> ELSE kept,
                     !.reasoning_truncated = call.chain # <<>> /\ over,
                     !.has_chain = call.chain # <<>>,
                     !.step_count = IF call.chain = <<>> THEN 0 ELSE Len(kept),
                     !.llm_calls = call.usage]

Min(a, b) == IF a < b THEN a ELSE b

Init ==
    /\ state = NoItem
    /\ context = "none"
    /\ audit = "none"
    /\ bus = [diag |-> 0, empty |-> 0]
    /\ published = 0
    /\ ack = "none"
    /\ ipc = [w \in IW |-> "idle"]
    /\ ilost = [w \in IW |-> FALSE]
    /\ unknown = [w \in IW |-> NoItem]
    /\ rpc = [w \in RW |-> "idle"]
    /\ rlost = [w \in RW |-> FALSE]
    /\ wpc = [w \in WW |-> "idle"]
    /\ wsnap = [w \in WW |-> 0]
    /\ agent = NoRun
    /\ truncation = NoTruncation
    /\ transcript = NoAudit

\* ------------------------------------------------------------------ time
Tick ==
    /\ state.exists
    /\ state.age < AgeCap
    /\ state' = [state EXCEPT !.age = Min(@ + TickMinutes, AgeCap)]
    /\ ack' = "none"
    /\ UNCHANGED <<agent, truncation, transcript>>
    /\ UNCHANGED <<context, audit, bus, published, intakeVars, resolverVars, watchdogVars, unknown>>

\* ---------------------------------------------------------------- Intake
\* an Intake worker ends its invocation: it returns a body, raises or dies
IntakeEnd(w, result) ==
    /\ ipc' = [ipc EXCEPT ![w] = "idle"]
    /\ ilost' = [ilost EXCEPT ![w] = FALSE]
    /\ ack' = result
    /\ UNCHANGED <<agent, truncation, transcript>>

\* an Intake worker goes on to its next call
IntakeGoto(w, next) ==
    /\ ipc' = [ipc EXCEPT ![w] = next]
    /\ ack' = "none"
    /\ UNCHANGED <<agent, truncation, transcript>>

\* the CAS of an Intake worker inside the try block failed: ClientError, caught by "except Exception"
IntakeLost(w) ==
    /\ ipc' = [ipc EXCEPT ![w] = "except_exception"]
    /\ ilost' = [ilost EXCEPT ![w] = TRUE]
    /\ ack' = "none"
    /\ UNCHANGED <<agent, truncation, transcript>>

\* the malformed-payload path without its write_initial_state
IntakeMalformed_no_record(w) ==
    /\ ipc[w] = "idle"
    /\ IntakeGoto(w, "malformed_failed")
    /\ UNCHANGED <<storeVars, bus, published, ilost, resolverVars, watchdogVars, unknown>>

\* handler invoked with a triggering event that lacks lambda_name or timestamp:
\* incident_id = "unknown#<uuid4>", a fresh id; write_initial_state on it
IntakeMalformed(w) ==
    /\ ipc[w] = "idle"
    /\ unknown' = [unknown EXCEPT ![w] = write_initial_state(NoItem)]
    /\ IntakeGoto(w, "malformed_failed")
    /\ UNCHANGED <<storeVars, bus, published, ilost, resolverVars, watchdogVars>>

\* handler: transition_state(RECEIVED, FAILED) on the item of the fresh id; return status FAILED
IntakeMalformedFailed(w) ==
    /\ ipc[w] = "malformed_failed"
    /\ unknown' = [unknown EXCEPT ![w] =
                      transition_state(@, "RECEIVED", "FAILED", "Malformed SNS payload", "")]
    /\ IntakeEnd(w, "FAILED")
    /\ UNCHANGED <<storeVars, bus, published, resolverVars, watchdogVars>>

\* handler invoked with a well-formed triggering event of the incident:
\* _dedup_or_recover's get_state and the decision taken on what was read
IntakeDedup(w) ==
    /\ ipc[w] = "idle"
    /\ LET existing == get_state(state) IN
         IF ~existing.exists
         THEN IntakeGoto(w, "write_initial_state") /\ ilost' = ilost
         ELSE IF existing.status = "NONE"   \* existing["status"]: KeyError
         THEN IntakeEnd(w, "raised")
         ELSE IF existing.status = "RECEIVED"
         THEN IntakeGoto(w, "to_investigating") /\ ilost' = ilost
         ELSE IF existing.status = "INVESTIGATING" /\ intake_stale(existing)
         THEN IntakeGoto(w, "reset_stale") /\ ilost' = ilost
         ELSE IntakeEnd(w, "already handled")
    /\ UNCHANGED <<storeVars, bus, published, resolverVars, watchdogVars, unknown>>

\* _dedup_or_recover: write_initial_state; a failed condition is raised out of the handler
IntakeWriteInitial(w) ==
    /\ ipc[w] = "write_initial_state"
    /\ state' = write_initial_state(state)
    /\ IF ~state.exists
       THEN IntakeGoto(w, "to_investigating") /\ ilost' = ilost
       ELSE IntakeEnd(w, "raised")
    /\ UNCHANGED <<context, audit, bus, published, resolverVars, watchdogVars, unknown>>

\* _dedup_or_recover: transition_state(INVESTIGATING, RECEIVED) on a stale item
IntakeResetStale(w) ==
    /\ ipc[w] = "reset_stale"
    /\ state' = transition_state(state, "INVESTIGATING", "RECEIVED", "", "")
    /\ IF cas_ok(state, "INVESTIGATING")
       THEN IntakeGoto(w, "to_investigating") /\ ilost' = ilost
       ELSE IntakeEnd(w, "raised")
    /\ UNCHANGED <<context, audit, bus, published, resolverVars, watchdogVars, unknown>>

\* handler: transition_state(RECEIVED, INVESTIGATING), outside the try block; then run_agent is called
IntakeToInvestigating(w) ==
    /\ ipc[w] = "to_investigating"
    /\ state' = transition_state(state, "RECEIVED", "INVESTIGATING", "", "")
    /\ IF cas_ok(state, "RECEIVED")
       THEN IntakeGoto(w, "run_agent") /\ ilost' = ilost
       ELSE IntakeEnd(w, "raised")
    /\ UNCHANGED <<context, audit, bus, published, resolverVars, watchdogVars, unknown>>

\* handler: run_agent returned a diagnosis; _store_context
IntakeStoreContext(w) ==
    /\ ipc[w] = "run_agent"
    /\ context' = "diagnosis"
    /\ IntakeGoto(w, "store_audit")
    /\ UNCHANGED <<state, audit, bus, published, ilost, resolverVars, watchdogVars, unknown>>

\* handler: _store_audit
IntakeStoreAudit(w) ==
    /\ ipc[w] = "store_audit"
    /\ audit' = "supervisor"
    /\ IntakeGoto(w, "to_diagnosed")
    /\ UNCHANGED <<state, context, bus, published, ilost, resolverVars, watchdogVars, unknown>>

\* handler: transition_state(INVESTIGATING, DIAGNOSED), inside the try block
IntakeToDiagnosed(w) ==
    /\ ipc[w] = "to_diagnosed"
    /\ state' = transition_state(state, "INVESTIGATING", "DIAGNOSED", "", "")
    /\ IF cas_ok(state, "INVESTIGATING")
       THEN IntakeEnd(w, "DIAGNOSED")
       ELSE IntakeLost(w)
    /\ UNCHANGED <<context, audit, bus, published, resolverVars, watchdogVars, unknown>>

\* handler: run_agent returned no diagnosis; transition_state(INVESTIGATING, FAILED) inside the try block
IntakeFailNoDiagnosis(w) ==
    /\ ipc[w] = "run_agent"
    /\ state' = transition_state(state, "INVESTIGATING", "FAILED", "Agent produced no diagnosis", "")
    /\ IF cas_ok(state, "INVESTIGATING")
       THEN IntakeEnd(w, "FAILED")
       ELSE IntakeLost(w)
    /\ UNCHANGED <<context, audit, bus, published, resolverVars, watchdogVars, unknown>>

\* "except AgentError" that raises the error again after recording it
IntakeFailAgentError_raise(w, category) ==
    /\ ipc[w] = "run_agent"
    /\ state' = transition_state(state, "INVESTIGATING", "FAILED", "agent error", category)
    /\ IntakeEnd(w, "raised")
    /\ UNCHANGED <<context, audit, bus, published, resolverVars, watchdogVars, unknown>>

\* handler: run_agent raised AgentError; "except AgentError": a failed transition is logged and swallowed
IntakeFailAgentError(w, category) ==
    /\ ipc[w] = "run_agent"
    /\ state' = transition_state(state, "INVESTIGATING", "FAILED", "agent error", category)
    /\ IntakeEnd(w, "FAILED")
    /\ UNCHANGED <<context, audit, bus, published, resolverVars, watchdogVars, unknown>>

\* handler: "except Exception" (run_agent raised, or a call inside the try block did):
\* a failed transition is logged and swallowed, then the exception is raised again
IntakeFailException(w) ==
    /\ ipc[w] \in {"run_agent", "except_exception"}
    /\ state' = transition_state(state, "INVESTIGATING", "FAILED", "exception", "")
    /\ IntakeEnd(w, "raised")
    /\ UNCHANGED <<context, audit, bus, published, resolverVars, watchdogVars, unknown>>

\* the process of an Intake worker dies between two calls
IntakeCrash(w) ==
    /\ ipc[w] # "idle"
    /\ IntakeEnd(w, "crashed")
    /\ UNCHANGED <<storeVars, bus, published, resolverVars, watchdogVars, unknown>>

Intake(w) ==
    \/ IntakeMalformed(w)
    \/ IntakeMalformedFailed(w)
    \/ IntakeDedup(w)
    \/ IntakeWriteInitial(w)
    \/ IntakeResetStale(w)
    \/ IntakeToInvestigating(w)
    \/ IntakeStoreContext(w)
    \/ IntakeStoreAudit(w)
    \/ IntakeToDiagnosed(w)
    \/ IntakeFailNoDiagnosis(w)
    \/ \E category \in Categories : IntakeFailAgentError(w, category)
    \/ IntakeFailException(w)
    \/ IntakeCrash(w)

\* ------------------------------------------------------------ Resolution
\* _store_proposal: update_item without a condition; DynamoDB creates the item when it is absent
store_proposal(item) ==
    [item EXCEPT !.exists = TRUE, !.proposal = TRUE, !.age = 0]

\* a Resolution worker ends its invocation: it returns a body, raises or dies
ResolverEnd(w, result) ==
    /\ rpc' = [rpc EXCEPT ![w] = "idle"]
    /\ rlost' = [rlost EXCEPT ![w] = FALSE]
    /\ ack' = result
    /\ UNCHANGED <<agent, truncation, transcript>>

\* a Resolution worker goes on to its next call
ResolverGoto(w, next) ==
    /\ rpc' = [rpc EXCEPT ![w] = next]
    /\ ack' = "none"
    /\ UNCHANGED <<agent, truncation, transcript>>

\* the CAS of a Resolution worker inside the try block failed: ClientError, caught by "except Exception"
ResolverLost(w) ==
    /\ rpc' = [rpc EXCEPT ![w] = "except_exception"]
    /\ rlost' = [rlost EXCEPT ![w] = TRUE]
    /\ ack' = "none"
    /\ UNCHANGED <<agent, truncation, transcript>>

\* handler invoked with a handoff message from the bus (the bus may deliver it again);
\* payload without incident_id or with a falsy diagnosis: "malformed payload";
\* otherwise run_agent is called
ResolverStart(w, kind, redeliver) ==
    /\ rpc[w] = "idle"
    /\ bus[kind] > 0
    /\ bus' = IF redeliver THEN bus ELSE [bus EXCEPT ![kind] = @ - 1]
    /\ IF kind = "empty"
       THEN ResolverEnd(w, "malformed payload")
       ELSE ResolverGoto(w, "run_agent") /\ rlost' = rlost
    /\ UNCHANGED <<storeVars, published, intakeVars, watchdogVars, unknown>>

\* handler: run_agent returned, with or without a proposal; _store_audit
ResolverStoreAudit(w, outcome) ==
    /\ rpc[w] = "run_agent"
    /\ audit' = "resolver"
    /\ ResolverGoto(w, IF outcome = "outcome" THEN "store_proposal" ELSE "fail_no_proposal")
    /\ UNCHANGED <<state, context, bus, published, rlost, intakeVars, watchdogVars, unknown>>

\* the handler going on to its status write without the _store_proposal call
ResolverStoreProposal_skipped(w) ==
    /\ rpc[w] = "store_proposal"
    /\ ResolverGoto(w, "to_proposed")
    /\ UNCHANGED <<storeVars, bus, published, rlost, intakeVars, watchdogVars, unknown>>

\* handler: _store_proposal
ResolverStoreProposal(w) ==
    /\ rpc[w] = "store_proposal"
    /\ state' = store_proposal(state)
    /\ ResolverGoto(w, "to_proposed")
    /\ UNCHANGED <<context, audit, bus, published, rlost, intakeVars, watchdogVars, unknown>>

\* handler: transition_state(RESOLVING, PROPOSED), inside the try block
ResolverToProposed(w) ==
    /\ rpc[w] = "to_proposed"
    /\ state' = transition_state(state, "RESOLVING", "PROPOSED", "", "")
    /\ IF cas_ok(state, "RESOLVING")
       THEN ResolverEnd(w, "PROPOSED")
       ELSE ResolverLost(w)
    /\ UNCHANGED <<context, audit, bus, published, intakeVars, watchdogVars, unknown>>

\* handler: no proposal, transition_state(RESOLVING, PROPOSAL_FAILED) inside the try block
ResolverFailNoProposal(w) ==
    /\ rpc[w] = "fail_no_proposal"
    /\ state' = transition_state(state, "RESOLVING", "PROPOSAL_FAILED", "Agent produced no proposal", "")
    /\ IF cas_ok(state, "RESOLVING")
       THEN ResolverEnd(w, "PROPOSAL_FAILED")
       ELSE ResolverLost(w)
    /\ UNCHANGED <<context, audit, bus, published, intakeVars, watchdogVars, unknown>>

\* "except AgentError" that passes the reason to transition_state and not the category
ResolverFailAgentError_no_category(w, category) ==
    /\ rpc[w] = "run_agent"
    /\ state' = transition_state(state, "RESOLVING", "PROPOSAL_FAILED", "agent error", "")
    /\ ResolverEnd(w, "PROPOSAL_FAILED")
    /\ UNCHANGED <<context, audit, bus, published, intakeVars, watchdogVars, unknown>>

\* handler: run_agent raised AgentError; "except AgentError": a failed transition is logged and swallowed
ResolverFailAgentError(w, category) ==
    /\ rpc[w] = "run_agent"
    /\ state' = transition_state(state, "RESOLVING", "PROPOSAL_FAILED", "agent error", category)
    /\ ResolverEnd(w, "PROPOSAL_FAILED")
    /\ UNCHANGED <<context, audit, bus, published, intakeVars, watchdogVars, unknown>>

\* handler: "except Exception" (run_agent raised, or a call inside the try block did):
\* a failed transition is logged and swallowed, then the exception is raised again
ResolverFailException(w) ==
    /\ rpc[w] \in {"run_agent", "except_exception"}
    /\ state' = transition_state(state, "RESOLVING", "PROPOSAL_FAILED", "exception", "")
    /\ ResolverEnd(w, "raised")
    /\ UNCHANGED <<context, audit, bus, published, intakeVars, watchdogVars, unknown>>

\* the process of a Resolution worker dies between two calls
ResolverCrash(w) ==
    /\ rpc[w] # "idle"
    /\ ResolverEnd(w, "crashed")
    /\ UNCHANGED <<storeVars, bus, published, intakeVars, watchdogVars, unknown>>

Resolver(w) ==
    \/ \E kind \in {"diag", "empty"}, redeliver \in BOOLEAN : ResolverStart(w, kind, redeliver)
    \/ \E outcome \in {"outcome", "none"} : ResolverStoreAudit(w, outcome)
    \/ ResolverStoreProposal(w)
    \/ ResolverToProposed(w)
    \/ ResolverFailNoProposal(w)
    \/ \E category \in Categories : ResolverFailAgentError(w, category)
    \/ ResolverFailException(w)
    \/ ResolverCrash(w)

\* --------------------------------------------------------------- handoff
\* The step that takes a diagnosed incident to stage 2: DIAGNOSED -> RESOLVING and
\* one handoff message with the diagnosis.  orchestrator.py under src/ stops at
\* DIAGNOSED; the step is the one its tests describe (TestResolverHandoff).
Handoff ==
    /\ cas_ok(state, "DIAGNOSED")
    /\ state' = transition_state(state, "DIAGNOSED", "RESOLVING", "", "")
    /\ bus' = [bus EXCEPT !.diag = @ + 1]
    /\ ack' = "none"
    /\ UNCHANGED <<agent, truncation, transcript>>
    /\ UNCHANGED <<context, audit, published, intakeVars, resolverVars, watchdogVars, unknown>>

\* -------------------------------------------------------------- Watchdog
\* scan_stale_incidents called with the retry cutoff
scan_stale_incidents_retry_cutoff(item) ==
    item.exists /\ item.status = "INVESTIGATING" /\ item.age > RETRY_THRESHOLD_MINUTES

\* scan_stale_incidents: status = INVESTIGATING and updated_at < now - 10 minutes
scan_stale_incidents(item) ==
    item.exists /\ item.status = "INVESTIGATING" /\ item.age > STALE_THRESHOLD_MINUTES

\* scan_failed_proposals: status = PROPOSAL_FAILED and updated_at < now - 5 minutes
scan_failed_proposals(item) ==
    item.exists /\ item.status = "PROPOSAL_FAILED" /\ item.age > RETRY_THRESHOLD_MINUTES

\* transition_to_failed without its ConditionExpression
transition_to_failed_unconditional(item) ==
    IF item.exists
    THEN [item EXCEPT !.status = "FAILED", !.age = 0,
                      !.error_reason = "stale watchdog timeout"]
    ELSE item

\* transition_to_failed: conditional update INVESTIGATING -> FAILED
transition_to_failed(item) ==
    IF cas_ok(item, "INVESTIGATING")
    THEN [item EXCEPT !.status = "FAILED", !.age = 0,
                      !.error_reason = "stale watchdog timeout"]
    ELSE item

\* retry_proposal, retry_count >= MAX_RETRIES: conditional update PROPOSAL_FAILED -> FAILED
retry_exhausted(item) ==
    IF cas_ok(item, "PROPOSAL_FAILED")
    THEN [item EXCEPT !.status = "FAILED", !.age = 0,
                      !.error_reason = "max retries (2) exhausted"]
    ELSE item

\* the retry update that writes the count it read back unchanged
retry_resolving_same_count(item, retry_count) ==
    IF cas_ok(item, "PROPOSAL_FAILED")
    THEN [item EXCEPT !.status = "RESOLVING", !.age = 0,
                      !.retry_count = retry_count]
    ELSE item

\* the retry update without its ConditionExpression
retry_resolving_unconditional(item, retry_count) ==
    IF item.exists
    THEN [item EXCEPT !.status = "RESOLVING", !.age = 0,
                      !.retry_count = retry_count + 1]
    ELSE item

\* retry_proposal: conditional update PROPOSAL_FAILED -> RESOLVING, retry_count = the count read by the scan + 1
retry_resolving(item, retry_count) ==
    IF cas_ok(item, "PROPOSAL_FAILED")
    THEN [item EXCEPT !.status = "RESOLVING", !.age = 0,
                      !.retry_count = retry_count + 1]
    ELSE item

\* a Watchdog worker ends its invocation; the body it returns: retried r/f proposals
WatchdogEnd(w, result) ==
    /\ wpc' = [wpc EXCEPT ![w] = "idle"]
    /\ wsnap' = [wsnap EXCEPT ![w] = 0]
    /\ ack' = result
    /\ UNCHANGED <<agent, truncation, transcript>>

\* a Watchdog worker goes on to its next call
WatchdogGoto(w, next) ==
    /\ wpc' = [wpc EXCEPT ![w] = next]
    /\ ack' = "none"
    /\ UNCHANGED <<agent, truncation, transcript>>

\* handler invoked by the schedule: pass 1, the scan
WatchdogScanStale(w) ==
    /\ wpc[w] = "idle"
    /\ WatchdogGoto(w, IF scan_stale_incidents(state)
                       THEN "transition_to_failed" ELSE "scan_failed_proposals")
    /\ UNCHANGED <<storeVars, bus, published, intakeVars, resolverVars, wsnap, unknown>>

\* handler: pass 1, transition_to_failed on the item found; a lost CAS returns False
WatchdogTransitionToFailed(w) ==
    /\ wpc[w] = "transition_to_failed"
    /\ state' = transition_to_failed(state)
    /\ WatchdogGoto(w, "scan_failed_proposals")
    /\ UNCHANGED <<context, audit, bus, published, intakeVars, resolverVars, wsnap, unknown>>

\* handler: pass 2, the scan; the item found carries the retry_count of that moment
WatchdogScanFailed(w) ==
    /\ wpc[w] = "scan_failed_proposals"
    /\ IF scan_failed_proposals(state)
       THEN /\ WatchdogGoto(w, "retry_proposal")
            /\ wsnap' = [wsnap EXCEPT ![w] = state.retry_count]
       ELSE WatchdogEnd(w, "retried 0/0")
    /\ UNCHANGED <<storeVars, bus, published, intakeVars, resolverVars, unknown>>

\* retry_proposal that gives up only when the count read is above MAX_RETRIES
WatchdogRetryProposal_above_max(w) ==
    /\ wpc[w] = "retry_proposal"
    /\ IF wsnap[w] > MAX_RETRIES
       THEN /\ state' = retry_exhausted(state)
            /\ WatchdogEnd(w, "retried 0/1")
       ELSE /\ state' = retry_resolving(state, wsnap[w])
            /\ IF cas_ok(state, "PROPOSAL_FAILED")
               THEN WatchdogGoto(w, "publish") /\ wsnap' = wsnap
               ELSE WatchdogEnd(w, "retried 0/1")
    /\ UNCHANGED <<context, audit, bus, published, intakeVars, resolverVars, unknown>>

\* retry_proposal: the conditional update, to FAILED or to RESOLVING
WatchdogRetryProposal(w) ==
    /\ wpc[w] = "retry_proposal"
    /\ IF wsnap[w] >= MAX_RETRIES
       THEN /\ state' = retry_exhausted(state)
            /\ WatchdogEnd(w, "retried 0/1")
       ELSE /\ state' = retry_resolving(state, wsnap[w])
            /\ IF cas_ok(state, "PROPOSAL_FAILED")
               THEN WatchdogGoto(w, "publish") /\ wsnap' = wsnap
               ELSE WatchdogEnd(w, "retried 0/1")
    /\ UNCHANGED <<context, audit, bus, published, intakeVars, resolverVars, unknown>>

\* retry_proposal: get_item on incident-context (no item, or the read fails: diagnosis = {}),
\* then sns publish of {incident_id, diagnosis}
WatchdogPublish(w, read_ok) ==
    /\ wpc[w] = "publish"
    /\ bus' = IF read_ok /\ context = "diagnosis"
              THEN [bus EXCEPT !.diag = @ + 1]
              ELSE [bus EXCEPT !.empty = @ + 1]
    /\ published' = published + 1
    /\ WatchdogEnd(w, "retried 1/1")
    /\ UNCHANGED <<storeVars, intakeVars, resolverVars, unknown>>

\* the process of a Watchdog worker dies between two calls
WatchdogCrash(w) ==
    /\ wpc[w] # "idle"
    /\ WatchdogEnd(w, "crashed")
    /\ UNCHANGED <<storeVars, bus, published, intakeVars, resolverVars, unknown>>

Watchdog(w) ==
    \/ WatchdogScanStale(w)
    \/ WatchdogTransitionToFailed(w)
    \/ WatchdogScanFailed(w)
    \/ WatchdogRetryProposal(w)
    \/ \E read_ok \in BOOLEAN : WatchdogPublish(w, read_ok)
    \/ WatchdogCrash(w)

\* ------------------------------------------------- reasoning loop, steps
GraphNodes == {"agent_reason", "execute_tools", "extract", "nudge"}

\* a step of run_agent: it touches no table and no topic
AgentStep(a) ==
    /\ agent' = a
    /\ ack' = "none"
    /\ UNCHANGED <<truncation, transcript>>
    /\ UNCHANGED <<storeVars, bus, published, intakeVars, resolverVars, watchdogVars, unknown>>

\* run_agent, "except Exception" and the end of the for loop: the exception of an attempt is
\* classified; a permanent category is raised at once; otherwise it becomes last_error,
\* and either asyncio.sleep(2 ** attempt) and the next attempt follow, or, after the last
\* attempt, "raise last_error"
attempt_raised(a, exc) ==
    LET category == classify_error(exc)
        reset == [a EXCEPT !.steps = 0, !.nudged = FALSE, !.nudges = 0, !.last = <<>>,
                           !.tool_messages = <<>>, !.raised = first_exception(exc).cls,
                           !.category = category]
    IN  IF category \in PERMANENT_CATEGORIES
        THEN [reset EXCEPT !.pc = "returned", !.result = "agent_error"]
        ELSE IF a.attempt < max_retries - 1
        THEN [reset EXCEPT !.pc = "execute_agent", !.attempt = @ + 1,
                           !.sleeps = Append(@, 2 ^ a.attempt)]
        ELSE [reset EXCEPT !.pc = "returned", !.result = "agent_error"]

\* the handler calls run_agent: get_mcp_api_key, outside the try of the for loop, so
\* that a ClientError of the parameter store leaves run_agent unclassified
RunAgent(key_ok) ==
    /\ agent.pc = "idle"
    /\ ipc[1] = "run_agent" \/ rpc[1] = "run_agent"
    /\ LET stage == IF ipc[1] = "run_agent" THEN "intake" ELSE "resolver" IN
         AgentStep(IF key_ok
                   THEN [NoRun EXCEPT !.stage = stage, !.pc = "execute_agent"]
                   ELSE [NoRun EXCEPT !.stage = stage, !.pc = "returned",
                                      !.result = "exception", !.raised = "ClientError"])

\* _execute_agent: the connection is made and initialized, the graph starts at agent_reason
ExecuteAgent ==
    /\ agent.pc = "execute_agent"
    /\ AgentStep([agent EXCEPT !.pc = "agent_reason", !.calls = @ + 1, !.raised = "none"])

\* _execute_agent: the connection or its initialization fails
ExecuteAgentFails(exc) ==
    /\ agent.pc = "execute_agent"
    /\ AgentStep(attempt_raised([agent EXCEPT !.calls = @ + 1], exc))

\* the remaining time of the invocation drops under DEADLINE_BUFFER while the graph runs;
\* from then on agent_reason appends its directive to the messages of each call
DeadlineNear ==
    /\ agent.pc \in GraphNodes
    /\ ~agent.deadline_near
    /\ AgentStep([agent EXCEPT !.deadline_near = TRUE])

\* node agent_reason (llm.ainvoke returns a response), then route_after_reason;
\* "end" ends the graph: _execute_agent returns without an outcome
AgentReason(response) ==
    /\ agent.pc = "agent_reason"
    /\ agent.steps < RECURSION_LIMIT(agent.stage)
    /\ LET route == IF agent.stage = "intake"
                    THEN supervisor_route_after_reason(response)
                    ELSE resolver_route_after_reason(response, FALSE, agent.nudged)
           stepped == [agent EXCEPT !.steps = @ + 1, !.last = response,
                                    !.tool_messages = <<>>, !.provider_calls = 0]
       IN  AgentStep(CASE route = "tools" -> [stepped EXCEPT !.pc = "execute_tools"]
                       [] route = "submit" -> [stepped EXCEPT !.pc = "extract"]
                       [] route = "nudge" -> [stepped EXCEPT !.pc = "nudge"]
                       [] route = "end" -> [stepped EXCEPT !.pc = "returned", !.result = "none"])

\* node agent_reason: llm.ainvoke raises
AgentReasonFails(exc) ==
    /\ agent.pc = "agent_reason"
    /\ agent.steps < RECURSION_LIMIT(agent.stage)
    /\ AgentStep(attempt_raised(agent, exc))

\* node execute_tools: for each tool call of the last message, validate_tool_args,
\* provider.call_tool, validate_tool_response; an exception of an iteration leaves the graph
ExecuteTools ==
    /\ agent.pc = "execute_tools"
    /\ agent.steps < RECURSION_LIMIT(agent.stage)
    /\ LET calls == evidence_calls(agent.last)
           n == completed_calls(calls)
           called(k) == Cardinality({i \in 1..k : validate_tool_args(calls[i])})
       IN  IF n < Len(calls)
           THEN AgentStep(attempt_raised([agent EXCEPT !.provider_calls = called(n + 1)],
                                         Exc(tool_call_raises(calls[n + 1]))))
           ELSE AgentStep([agent EXCEPT !.pc = "agent_reason", !.steps = @ + 1,
                                        !.last = <<>>,
                                        !.tool_messages = [i \in 1..n |-> tool_message(calls[i])],
                                        !.provider_calls = called(n)])

\* node nudge_proposal (resolver/agent.py only): the directive is appended, _nudged is set
NudgeProposal ==
    /\ agent.pc = "nudge"
    /\ agent.steps < RECURSION_LIMIT(agent.stage)
    /\ AgentStep([agent EXCEPT !.pc = "agent_reason", !.steps = @ + 1, !.last = <<>>,
                               !.nudged = TRUE, !.nudges = @ + 1])

\* node extract_diagnosis / extract_proposal: Diagnosis(**args) / RemediationProposal(**args)
\* on the first submission call; the ValidationError of rejected arguments is not caught
\* in the node; otherwise the graph ends and _execute_agent returns the outcome
ExtractOutcome ==
    /\ agent.pc = "extract"
    /\ agent.steps < RECURSION_LIMIT(agent.stage)
    /\ IF first_submit(agent.last).args = "valid"
       THEN AgentStep([agent EXCEPT !.pc = "returned", !.steps = @ + 1, !.result = "outcome"])
       ELSE AgentStep(attempt_raised(agent, Exc("ValidationError")))

\* graph.ainvoke with recursion_limit: the graph has run that many steps and has not
\* reached END: GraphRecursionError
RecursionLimit ==
    /\ agent.pc \in GraphNodes
    /\ agent.steps >= RECURSION_LIMIT(agent.stage)
    /\ AgentStep(attempt_raised(agent, Exc("GraphRecursionError")))

RunAgentSteps ==
    \/ \E key_ok \in BOOLEAN : RunAgent(key_ok)
    \/ ExecuteAgent
    \/ \E exc \in ConnectFailures : ExecuteAgentFails(exc)
    \/ DeadlineNear
    \/ \E response \in Responses : AgentReason(response)
    \/ \E exc \in ReasoningFailures : AgentReasonFails(exc)
    \/ ExecuteTools
    \/ NudgeProposal
    \/ ExtractOutcome
    \/ RecursionLimit

\* Intake's handler after run_agent of supervisor/agent.py has returned or raised.
\* run_agent returns the Diagnosis itself (or None); the handler reads the result with
\* agent_result.get("diagnosis"), the shape its tests hand it: on a Diagnosis that is an
\* AttributeError inside the try block, caught by "except Exception".
IntakeAfterRunAgent ==
    /\ agent.stage = "intake"
    /\ agent.pc = "returned"
    /\ \/ agent.result \in {"outcome", "exception"} /\ IntakeFailException(1)
       \/ agent.result = "none" /\ IntakeFailNoDiagnosis(1)
       \/ agent.result = "agent_error" /\ IntakeFailAgentError(1, agent.category)

\* Resolution's handler after run_agent of resolver/agent.py has returned or raised
ResolverAfterRunAgent ==
    /\ agent.stage = "resolver"
    /\ agent.pc = "returned"
    /\ \/ agent.result \in {"outcome", "none"} /\ ResolverStoreAudit(1, agent.result)
       \/ agent.result = "agent_error" /\ ResolverFailAgentError(1, agent.category)
       \/ agent.result = "exception" /\ ResolverFailException(1)

\* ------------------------------------------------------ audit storage, steps
\* _store_audit of the stage named by writer ("supervisor": orchestrator.py,
\* "resolver": resolver/handler.py): the item is built from the chain and the token
\* usage and put to incident-audit, replacing the item of the incident
StoreAudit(writer) ==
    /\ transcript.pc = "store_audit"
    /\ transcript.writer = writer
    /\ transcript' = store_audit(transcript)
    /\ audit' = writer
    /\ UNCHANGED <<state, context, bus, published, ack, intakeVars, unknown, resolverVars,
                   watchdogVars, agent, truncation>>

\* ---------------------------------------------- context truncation, steps
\* a step of truncate_to_budget: local computation on the bundle, no table, no topic
TruncateStep(t) ==
    /\ truncation' = t
    /\ UNCHANGED <<storeVars, bus, published, ack, intakeVars, unknown, resolverVars,
                   watchdogVars, agent, transcript>>

\* truncate_to_budget up to the first pass: a budget <= 0 switches truncation off, a
\* bundle within budget is returned as it is with details {}
TruncateToBudget ==
    /\ truncation.pc = "truncate_to_budget"
    /\ TruncateStep(
          IF truncation.budget <= 0
          THEN [truncation EXCEPT !.pc = "returned", !.details = [NoDetails EXCEPT !.skipped = TRUE]]
          ELSE IF estimate_tokens(truncation.context) <= truncation.budget
          THEN [truncation EXCEPT !.pc = "returned", !.details = NoDetails]
          ELSE [truncation EXCEPT !.pc = "drop_oldest_logs", !.details = NoDetails])

\* _drop_oldest_logs up to its loop: nothing to do without an "events" list or within budget
DropOldestLogs ==
    /\ truncation.pc = "drop_oldest_logs"
    /\ TruncateStep(
          IF \/ truncation.context.logs # "events"
             \/ estimate_tokens(truncation.context) <= truncation.budget
          THEN [truncation EXCEPT !.pc = "trim_iam_to_sids"]
          ELSE [truncation EXCEPT !.pc = "pop",
                                  !.original_count = Len(truncation.context.events)])

\* the loop body with pop() in place of pop(0): the newest event goes
PopOldestLog_newest ==
    /\ truncation.pc = "pop"
    /\ estimate_tokens(truncation.context) > truncation.budget
    /\ truncation.context.events # <<>>
    /\ TruncateStep([truncation EXCEPT
          !.context.events = SubSeq(@, 1, Len(@) - 1)])

\* _drop_oldest_logs, one iteration of "while current > budget and events": events.pop(0)
PopOldestLog ==
    /\ truncation.pc = "pop"
    /\ estimate_tokens(truncation.context) > truncation.budget
    /\ truncation.context.events # <<>>
    /\ TruncateStep([truncation EXCEPT !.context.events = Tail(@)])

\* _drop_oldest_logs, after the loop: the number of events dropped goes into the details
DropOldestLogsReturn ==
    /\ truncation.pc = "pop"
    /\ ~(/\ estimate_tokens(truncation.context) > truncation.budget
         /\ truncation.context.events # <<>>)
    /\ TruncateStep([truncation EXCEPT
          !.pc = "trim_iam_to_sids",
          !.details.events_dropped = truncation.original_count - Len(truncation.context.events)])

\* _trim_iam_to_sids
TrimIamToSids ==
    /\ truncation.pc = "trim_iam_to_sids"
    /\ TruncateStep(
          IF \/ truncation.context.iam # "policies"
             \/ estimate_tokens(truncation.context) <= truncation.budget
          THEN [truncation EXCEPT !.pc = "drop_lambda_config"]
          ELSE [truncation EXCEPT !.pc = "drop_lambda_config",
                                  !.context.policies = trim_iam_to_sids(@),
                                  !.details.trimmed = TRUE])

\* _drop_lambda_config, and the return of truncate_to_budget
DropLambdaConfig ==
    /\ truncation.pc = "drop_lambda_config"
    /\ TruncateStep(
          IF \/ truncation.context.config < 0
             \/ estimate_tokens(truncation.context) <= truncation.budget
          THEN [truncation EXCEPT !.pc = "returned"]
          ELSE [truncation EXCEPT !.pc = "returned",
                                  !.context.config = DroppedChars,
                                  !.details.dropped = TRUE])

\* truncate_to_budget is called again, on the bundle it returned and with the same budget
TruncateAgain ==
    /\ truncation.pc = "returned"
    /\ truncation.calls < MaxTruncateCalls
    /\ TruncateStep([truncation EXCEPT !.pc = "truncate_to_budget",
                                       !.input = truncation.context,
                                       !.details = NoDetails,
                                       !.original_count = 0,
                                       !.calls = @ + 1])

\* ------------------------------------------------------- specifications
\* The pipeline: one invocation of each role at a time, crashes included.
Next ==
    \/ Tick
    \/ Intake(1)
    \/ Resolver(1)
    \/ Handoff
    \/ Watchdog(1)

Spec == Init /\ [][Next]_vars

\* Concurrent Intake invocations for the same triggering event, with the Watchdog.
IntakeRaceNext ==
    \/ Tick
    \/ \E w \in IW : Intake(w)
    \/ WatchdogScanStale(1)
    \/ WatchdogTransitionToFailed(1)
    \/ WatchdogScanFailed(1)
    \/ WatchdogCrash(1)

IntakeRaceSpec == Init /\ [][IntakeRaceNext]_vars

\* The record a crashed creator left behind: written by write_initial_state, never advanced.
RecoveryInit ==
    /\ state = write_initial_state(NoItem)
    /\ context = "none"
    /\ audit = "none"
    /\ bus = [diag |-> 0, empty |-> 0]
    /\ published = 0
    /\ ack = "none"
    /\ ipc = [w \in IW |-> "idle"]
    /\ ilost = [w \in IW |-> FALSE]
    /\ unknown = [w \in IW |-> NoItem]
    /\ rpc = [w \in RW |-> "idle"]
    /\ rlost = [w \in RW |-> FALSE]
    /\ wpc = [w \in WW |-> "idle"]
    /\ wsnap = [w \in WW |-> 0]
    /\ agent = NoRun
    /\ truncation = NoTruncation
    /\ transcript = NoAudit

\* Intake invocations for the event of the record left behind, with the Watchdog's first pass.
RecoveryNext ==
    \/ Tick
    \/ IntakeDedup(1)
    \/ IntakeResetStale(1)
    \/ IntakeToInvestigating(1)
    \/ IntakeStoreContext(1)
    \/ IntakeStoreAudit(1)
    \/ IntakeToDiagnosed(1)
    \/ IntakeFailNoDiagnosis(1)
    \/ \E category \in Categories : IntakeFailAgentError(1, category)
    \/ IntakeFailException(1)
    \/ IntakeCrash(1)
    \/ WatchdogScanStale(1)
    \/ WatchdogTransitionToFailed(1)
    \/ WatchdogScanFailed(1)
    \/ WatchdogCrash(1)

RecoverySpec == RecoveryInit /\ [][RecoveryNext]_vars

\* Resolution and the Watchdog after the handoff: the record is RESOLVING, the
\* diagnosis and the audit of Intake are stored, the handoff message is on the bus.
HandedOffInit ==
    /\ state = [NoItem EXCEPT !.exists = TRUE, !.status = "RESOLVING"]
    /\ context = "diagnosis"
    /\ audit = "supervisor"
    /\ bus = [diag |-> 1, empty |-> 0]
    /\ published = 0
    /\ ack = "none"
    /\ ipc = [w \in IW |-> "idle"]
    /\ ilost = [w \in IW |-> FALSE]
    /\ unknown = [w \in IW |-> NoItem]
    /\ rpc = [w \in RW |-> "idle"]
    /\ rlost = [w \in RW |-> FALSE]
    /\ wpc = [w \in WW |-> "idle"]
    /\ wsnap = [w \in WW |-> 0]
    /\ agent = NoRun
    /\ truncation = NoTruncation
    /\ transcript = NoAudit

\* A Resolution invocation for a message the bus delivers once.
ResolverOnce(w) ==
    \/ \E kind \in {"diag", "empty"} : ResolverStart(w, kind, FALSE)
    \/ \E outcome \in {"outcome", "none"} : ResolverStoreAudit(w, outcome)
    \/ ResolverStoreProposal(w)
    \/ ResolverToProposed(w)
    \/ ResolverFailNoProposal(w)
    \/ \E category \in Categories : ResolverFailAgentError(w, category)
    \/ ResolverFailException(w)
    \/ ResolverCrash(w)

\* Resolution invocations and concurrent Watchdog invocations, every message delivered once.
RetryNext ==
    \/ Tick
    \/ \E w \in RW : ResolverOnce(w)
    \/ \E w \in WW : WatchdogScanStale(w)
    \/ \E w \in WW : WatchdogScanFailed(w)
    \/ \E w \in WW : WatchdogRetryProposal(w)
    \/ \E w \in WW, read_ok \in BOOLEAN : WatchdogPublish(w, read_ok)
    \/ \E w \in WW : WatchdogCrash(w)

RetrySpec == HandedOffInit /\ [][RetryNext]_vars

\* The records a Watchdog run finds: a stale INVESTIGATING record (its Intake worker
\* died before or after storing the diagnosis), or a PROPOSAL_FAILED record past the
\* retry threshold that has been retried retry_count times.
WatchdogInit ==
    /\ \/ /\ state = [NoItem EXCEPT !.exists = TRUE, !.status = "INVESTIGATING", !.age = AgeCap]
          /\ \E stored \in {<<"none", "none">>, <<"diagnosis", "supervisor">>} :
               context = stored[1] /\ audit = stored[2]
       \/ /\ \E rc \in 0..MAX_RETRIES :
               state = [NoItem EXCEPT !.exists = TRUE, !.status = "PROPOSAL_FAILED",
                                      !.age = AgeCap, !.retry_count = rc,
                                      !.error_reason = "Agent produced no proposal"]
          /\ context = "diagnosis"
          /\ audit = "resolver"
    /\ bus = [diag |-> 0, empty |-> 0]
    /\ published = state.retry_count
    /\ ack = "none"
    /\ ipc = [w \in IW |-> "idle"]
    /\ ilost = [w \in IW |-> FALSE]
    /\ unknown = [w \in IW |-> NoItem]
    /\ rpc = [w \in RW |-> "idle"]
    /\ rlost = [w \in RW |-> FALSE]
    /\ wpc = [w \in WW |-> "idle"]
    /\ wsnap = [w \in WW |-> 0]
    /\ agent = NoRun
    /\ truncation = NoTruncation
    /\ transcript = NoAudit

\* Watchdog invocations only, in succession or concurrent; no other role takes a step.
WatchdogNext ==
    \/ Tick
    \/ \E w \in WW : Watchdog(w)

WatchdogSpec == WatchdogInit /\ [][WatchdogNext]_vars

\* A stage at its reasoning call: Intake after RECEIVED -> INVESTIGATING, or Resolution
\* after it has taken the handoff message of a RESOLVING record.
AgentInit ==
    /\ \/ /\ state = [NoItem EXCEPT !.exists = TRUE, !.status = "INVESTIGATING"]
          /\ context = "none"
          /\ audit = "none"
          /\ ipc = [w \in IW |-> IF w = 1 THEN "run_agent" ELSE "idle"]
          /\ rpc = [w \in RW |-> "idle"]
       \/ /\ state = [NoItem EXCEPT !.exists = TRUE, !.status = "RESOLVING"]
          /\ context = "diagnosis"
          /\ audit = "supervisor"
          /\ ipc = [w \in IW |-> "idle"]
          /\ rpc = [w \in RW |-> IF w = 1 THEN "run_agent" ELSE "idle"]
    /\ bus = [diag |-> 0, empty |-> 0]
    /\ published = 0
    /\ ack = "none"
    /\ ilost = [w \in IW |-> FALSE]
    /\ unknown = [w \in IW |-> NoItem]
    /\ rlost = [w \in RW |-> FALSE]
    /\ wpc = [w \in WW |-> "idle"]
    /\ wsnap = [w \in WW |-> 0]
    /\ agent = NoRun
    /\ truncation = NoTruncation
    /\ transcript = NoAudit

\* The reasoning call of a stage and what the stage's handler does with its result.
AgentNext ==
    \/ RunAgentSteps
    \/ IntakeAfterRunAgent
    \/ ResolverAfterRunAgent
    \/ ResolverStoreProposal(1)
    \/ ResolverToProposed(1)
    \/ ResolverFailNoProposal(1)

AgentSpec == AgentInit /\ [][AgentNext]_vars

\* A handoff message on the topic that names an incident id without a record (the
\* record has expired, or the message was not published by the Watchdog).
StrayHandoffInit ==
    /\ state = NoItem
    /\ context = "none"
    /\ audit = "none"
    /\ bus = [diag |-> 1, empty |-> 0]
    /\ published = 0
    /\ ack = "none"
    /\ ipc = [w \in IW |-> "idle"]
    /\ ilost = [w \in IW |-> FALSE]
    /\ unknown = [w \in IW |-> NoItem]
    /\ rpc = [w \in RW |-> "idle"]
    /\ rlost = [w \in RW |-> FALSE]
    /\ wpc = [w \in WW |-> "idle"]
    /\ wsnap = [w \in WW |-> 0]
    /\ agent = NoRun
    /\ truncation = NoTruncation
    /\ transcript = NoAudit

\* Resolution takes the message; Intake and the Watchdog run as usual.
StrayHandoffNext ==
    \/ Tick
    \/ Intake(1)
    \/ Resolver(1)
    \/ WatchdogScanStale(1)
    \/ WatchdogTransitionToFailed(1)
    \/ WatchdogScanFailed(1)
    \/ WatchdogCrash(1)

StrayHandoffSpec == StrayHandoffInit /\ [][StrayHandoffNext]_vars

\* gather_context has collected a bundle and calls truncate_to_budget on it.
TruncateInit ==
    /\ state = [NoItem EXCEPT !.exists = TRUE, !.status = "INVESTIGATING"]
    /\ context = "none"
    /\ audit = "none"
    /\ bus = [diag |-> 0, empty |-> 0]
    /\ published = 0
    /\ ack = "none"
    /\ ipc = [w \in IW |-> IF w = 1 THEN "run_agent" ELSE "idle"]
    /\ ilost = [w \in IW |-> FALSE]
    /\ unknown = [w \in IW |-> NoItem]
    /\ rpc = [w \in RW |-> "idle"]
    /\ rlost = [w \in RW |-> FALSE]
    /\ wpc = [w \in WW |-> "idle"]
    /\ wsnap = [w \in WW |-> 0]
    /\ agent = NoRun
    /\ transcript = NoAudit
    /\ \E bundle \in Bundles, budget \in Budgets :
          truncation = [pc |-> "truncate_to_budget", budget |-> budget, input |-> bundle,
                        context |-> bundle, details |-> NoDetails, original_count |-> 0,
                        calls |-> 1]

\* The truncation of an evidence bundle, pass by pass.
TruncateNext ==
    \/ TruncateToBudget
    \/ DropOldestLogs
    \/ PopOldestLog
    \/ DropOldestLogsReturn
    \/ TrimIamToSids
    \/ DropLambdaConfig
    \/ TruncateAgain

TruncateSpec == TruncateInit /\ [][TruncateNext]_vars

\* A worker about to be superseded.  Either Intake worker 1 has taken the record to
\* INVESTIGATING and is in its reasoning call; or Resolution worker 1 has taken the
\* handoff message of the RESOLVING record and is in its reasoning call, and the topic
\* is going to deliver that message a second time.
FencingInit ==
    /\ \/ /\ state = [NoItem EXCEPT !.exists = TRUE, !.status = "INVESTIGATING"]
          /\ context = "none"
          /\ audit = "none"
          /\ bus = [diag |-> 0, empty |-> 0]
          /\ ipc = [w \in IW |-> IF w = 1 THEN "run_agent" ELSE "idle"]
          /\ rpc = [w \in RW |-> "idle"]
       \/ /\ state = [NoItem EXCEPT !.exists = TRUE, !.status = "RESOLVING"]
          /\ context = "diagnosis"
          /\ audit = "supervisor"
          /\ bus = [diag |-> 1, empty |-> 0]
          /\ ipc = [w \in IW |-> "idle"]
          /\ rpc = [w \in RW |-> IF w = 1 THEN "run_agent" ELSE "idle"]
    /\ published = 0
    /\ ack = "none"
    /\ ilost = [w \in IW |-> FALSE]
    /\ unknown = [w \in IW |-> NoItem]
    /\ rlost = [w \in RW |-> FALSE]
    /\ wpc = [w \in WW |-> "idle"]
    /\ wsnap = [w \in WW |-> 0]
    /\ agent = NoRun
    /\ truncation = NoTruncation
    /\ transcript = NoAudit

\* Worker 1 of either stage goes on with the invocation it is in and starts no other;
\* the invocations of worker 2 are the ones that take the record over: Intake by its
\* stale reset, Resolution by failing the record, which the Watchdog then re-drives.
FencingNext ==
    \/ Tick
    \/ IntakeDedup(2)
    \/ IntakeResetStale(2)
    \/ IntakeToInvestigating(2)
    \/ IntakeStoreContext(2)
    \/ IntakeStoreAudit(2)
    \/ IntakeToDiagnosed(2)
    \/ IntakeFailNoDiagnosis(2)
    \/ \E category \in Categories : IntakeFailAgentError(2, category)
    \/ IntakeFailException(2)
    \/ IntakeCrash(2)
    \/ IntakeStoreContext(1)
    \/ IntakeStoreAudit(1)
    \/ IntakeToDiagnosed(1)
    \/ IntakeFailNoDiagnosis(1)
    \/ \E category \in Categories : IntakeFailAgentError(1, category)
    \/ IntakeFailException(1)
    \/ ResolverOnce(2)
    \/ \E outcome \in {"outcome", "none"} : ResolverStoreAudit(1, outcome)
    \/ ResolverStoreProposal(1)
    \/ ResolverToProposed(1)
    \/ ResolverFailNoProposal(1)
    \/ \E category \in Categories : ResolverFailAgentError(1, category)
    \/ ResolverFailException(1)
    \/ Watchdog(1)

FencingSpec == FencingInit /\ [][FencingNext]_vars

\* Two Intake invocations for the same new triggering event: both have read the state
\* store, found no record, and are about to call write_initial_state.
InsertRaceInit ==
    /\ state = NoItem
    /\ context = "none"
    /\ audit = "none"
    /\ bus = [diag |-> 0, empty |-> 0]
    /\ published = 0
    /\ ack = "none"
    /\ ipc = [w \in IW |-> "write_initial_state"]
    /\ ilost = [w \in IW |-> FALSE]
    /\ unknown = [w \in IW |-> NoItem]
    /\ rpc = [w \in RW |-> "idle"]
    /\ rlost = [w \in RW |-> FALSE]
    /\ wpc = [w \in WW |-> "idle"]
    /\ wsnap = [w \in WW |-> 0]
    /\ agent = NoRun
    /\ truncation = NoTruncation
    /\ transcript = NoAudit

\* The two invocations run to their end, none of them is followed by another one;
\* time passes and the Watchdog makes its first pass.
InsertRaceNext ==
    \/ Tick
    \/ \E w \in IW : IntakeWriteInitial(w)
    \/ \E w \in IW : IntakeToInvestigating(w)
    \/ \E w \in IW : IntakeStoreContext(w)
    \/ \E w \in IW : IntakeStoreAudit(w)
    \/ \E w \in IW : IntakeToDiagnosed(w)
    \/ \E w \in IW : IntakeFailNoDiagnosis(w)
    \/ \E w \in IW, category \in Categories : IntakeFailAgentError(w, category)
    \/ \E w \in IW : IntakeFailException(w)
    \/ \E w \in IW : IntakeCrash(w)
    \/ WatchdogScanStale(1)
    \/ WatchdogTransitionToFailed(1)
    \/ WatchdogScanFailed(1)

InsertRaceSpec == InsertRaceInit /\ [][InsertRaceNext]_vars

\* A stage's reasoning call has returned and its handler calls _store_audit with the
\* chain and the token usage of the run: Intake with the record in INVESTIGATING,
\* Resolution with the record in RESOLVING.
AuditInit ==
    /\ context = "none"
    /\ audit = "none"
    /\ bus = [diag |-> 0, empty |-> 0]
    /\ published = 0
    /\ ack = "none"
    /\ ilost = [w \in IW |-> FALSE]
    /\ unknown = [w \in IW |-> NoItem]
    /\ rlost = [w \in RW |-> FALSE]
    /\ wpc = [w \in WW |-> "idle"]
    /\ wsnap = [w \in WW |-> 0]
    /\ agent = NoRun
    /\ truncation = NoTruncation
    /\ \E writer \in {"supervisor", "resolver"}, sizes \in Chains, usage \in 0..1 :
          /\ state = [NoItem EXCEPT !.exists = TRUE,
                                    !.status = IF writer = "supervisor" THEN "INVESTIGATING"
                                               ELSE "RESOLVING"]
          /\ ipc = [w \in IW |-> IF w = 1 /\ writer = "supervisor" THEN "store_audit" ELSE "idle"]
          /\ rpc = [w \in RW |-> IF w = 1 /\ writer = "resolver" THEN "run_agent" ELSE "idle"]
          /\ transcript = [NoAudit EXCEPT !.pc = "store_audit", !.writer = writer,
                                          !.chain = ChainOf(sizes), !.usage = usage]

\* The _store_audit call of either stage.
AuditNext ==
    \/ StoreAudit("supervisor")
    \/ StoreAudit("resolver")

AuditSpec == AuditInit /\ [][AuditNext]_vars

\* A started Intake invocation goes on: its process does not die at the same
\* call every time, and the reasoning call returns.
IntakeFairness ==
    /\ SF_vars(IntakeMalformedFailed(1))
    /\ SF_vars(IntakeWriteInitial(1))
    /\ SF_vars(IntakeResetStale(1))
    /\ SF_vars(IntakeToInvestigating(1))
    /\ SF_vars(IntakeStoreContext(1) \/ IntakeFailNoDiagnosis(1) \/ IntakeFailException(1))
    /\ SF_vars(IntakeStoreAudit(1))
    /\ SF_vars(IntakeToDiagnosed(1))

\* Every published message is delivered, and a started Resolution invocation goes on.
ResolverFairness ==
    /\ SF_vars(\E kind \in {"diag", "empty"} : ResolverStart(1, kind, FALSE))
    /\ SF_vars((\E outcome \in {"outcome", "none"} : ResolverStoreAudit(1, outcome))
                  \/ ResolverFailException(1))
    /\ SF_vars(ResolverStoreProposal(1))
    /\ SF_vars(ResolverToProposed(1))
    /\ SF_vars(ResolverFailNoProposal(1))

\* The schedule invokes the Watchdog again and again, and a started run goes on.
WatchdogFairness ==
    /\ SF_vars(WatchdogScanStale(1))
    /\ SF_vars(WatchdogTransitionToFailed(1))
    /\ SF_vars(WatchdogScanFailed(1))
    /\ SF_vars(WatchdogRetryProposal(1))
    /\ SF_vars(\E read_ok \in BOOLEAN : WatchdogPublish(1, read_ok))

\* The pipeline under fair scheduling: time passes, the handoff follows the
\* diagnosis, the Watchdog is invoked again and again, published messages are
\* delivered, reasoning calls return; a process may still die between two calls,
\* but not at the same call every time.
FairSpec ==
    /\ Init /\ [][Next]_vars
    /\ WF_vars(Tick)
    /\ WF_vars(Handoff)
    /\ IntakeFairness
    /\ ResolverFairness
    /\ WatchdogFairness

\* ------------------------------------------------------------------ claims
\* An Intake worker is active from its own successful RECEIVED -> INVESTIGATING
\* to the end of its processing.
IntakeActive(w) == ipc[w] \in {"run_agent", "store_audit", "to_diagnosed", "except_exception"}

\* C1: at most one Intake worker at a time is active on the incident, over every
\* interleaving of Intake invocations (first sight, duplicates, crash recovery,
\* stale reset) with Watchdog sweeps.
C1_AtMostOneActiveIntake == Cardinality({w \in IW : IntakeActive(w)}) <= 1

\* The edges of the lifecycle as the claim lists them.
ClaimedEdges ==
    { <<"RECEIVED", "INVESTIGATING">>, <<"INVESTIGATING", "DIAGNOSED">>,
      <<"DIAGNOSED", "RESOLVING">>, <<"RESOLVING", "PROPOSED">>,
      <<"INVESTIGATING", "FAILED">>, <<"RESOLVING", "FAILED">>,
      <<"RESOLVING", "PROPOSAL_FAILED">> }

\* The edges the three roles write: the claimed ones, Intake's stale reset, the
\* Watchdog's two moves out of PROPOSAL_FAILED and the malformed-payload failure.
WrittenEdges ==
    ClaimedEdges \cup
    { <<"INVESTIGATING", "RECEIVED">>, <<"PROPOSAL_FAILED", "RESOLVING">>,
      <<"PROPOSAL_FAILED", "FAILED">>, <<"RECEIVED", "FAILED">> }

\* a step that changes the status of the existing item
StatusChanged == state.exists /\ state.status # "NONE" /\ state'.status # state.status

\* a step that changes the status of the item worker w created for a malformed event
\* (an idle worker takes a fresh id for its next malformed event: another item)
UnknownStatusChanged(w) ==
    ipc[w] # "idle" /\ unknown[w].exists /\ unknown'[w].status # unknown[w].status

\* C2 as stated: every change of the status is one of the seven claimed edges.
C2_OnlyClaimedEdges ==
    [][ /\ StatusChanged => <<state.status, state'.status>> \in ClaimedEdges
        /\ \A w \in IW : UnknownStatusChanged(w)
             => <<unknown[w].status, unknown'[w].status>> \in ClaimedEdges ]_vars

\* C2 amended: every change of the status is one of the claimed edges or one of
\* INVESTIGATING -> RECEIVED, PROPOSAL_FAILED -> RESOLVING, PROPOSAL_FAILED -> FAILED,
\* RECEIVED -> FAILED.
C2_OnlyWrittenEdges ==
    [][ /\ StatusChanged => <<state.status, state'.status>> \in WrittenEdges
        /\ \A w \in IW : UnknownStatusChanged(w)
             => <<unknown[w].status, unknown'[w].status>> \in WrittenEdges ]_vars

\* C2 witness: the Watchdog has re-driven a failed proposal (an edge outside the claimed seven).
C2_Witness == state.status = "RESOLVING" /\ state.retry_count = 1

\* The expected status each call site hands to its conditional update.
IntakeFrom(pc) ==
    CASE pc = "to_investigating" -> "RECEIVED"
      [] pc \in {"reset_stale", "run_agent", "to_diagnosed", "except_exception"} -> "INVESTIGATING"
      [] OTHER -> "no conditional update"

ResolverFrom(pc) ==
    CASE pc \in {"run_agent", "to_proposed", "fail_no_proposal", "except_exception"} -> "RESOLVING"
      [] OTHER -> "no conditional update"

WatchdogFrom(pc) ==
    CASE pc = "transition_to_failed" -> "INVESTIGATING"
      [] pc = "retry_proposal" -> "PROPOSAL_FAILED"
      [] OTHER -> "no conditional update"

\* C3: a conditional update whose expected status differs from the stored one
\* changes nothing in the item (status, updated_at, error_reason, error_category,
\* retry_count) and its failure is visible to the caller: Intake raises or goes to
\* its exception handler, Resolution goes to its exception handler, the Watchdog
\* skips the item without publishing.
C3_FailedCasMutatesNothing ==
    [][ /\ \A w \in IW :
             (ipc'[w] # ipc[w] /\ IntakeFrom(ipc[w]) \in Status /\ ~cas_ok(state, IntakeFrom(ipc[w])))
             => /\ state' = state
                /\ ipc[w] \in {"reset_stale", "to_investigating"} => ack' \in {"raised", "crashed"}
                /\ ipc[w] = "to_diagnosed" => (ilost'[w] \/ ack' = "crashed")
        /\ \A w \in RW :
             (rpc'[w] # rpc[w] /\ ResolverFrom(rpc[w]) \in Status /\ ~cas_ok(state, ResolverFrom(rpc[w])))
             => /\ state' = state
                /\ rpc[w] \in {"to_proposed", "fail_no_proposal"} => (rlost'[w] \/ ack' = "crashed")
        /\ \A w \in WW :
             (wpc'[w] # wpc[w] /\ WatchdogFrom(wpc[w]) \in Status /\ ~cas_ok(state, WatchdogFrom(wpc[w])))
             => /\ state' = state
                /\ wpc[w] = "retry_proposal" => (wpc'[w] = "idle" /\ published' = published)
      ]_vars

\* C3 witness: an Intake worker has just lost its INVESTIGATING -> DIAGNOSED update
\* to the Watchdog's stale timeout.
C3_Witness == ilost[1] /\ state.status = "FAILED" /\ state.error_reason = "stale watchdog timeout"

\* C4: the status of the item changes only in a step of a worker whose conditional
\* update expects the stored status (or in the handoff, which expects DIAGNOSED);
\* it gets its first status only by write_initial_state on an absent item.
\* The same holds of the item created for a malformed event.
C4_StatusWritesAreCas ==
    [][ state'.status # state.status =>
          \/ /\ ~state.exists
             /\ state'.status = "RECEIVED"
             /\ \E w \in IW : ipc[w] = "write_initial_state" /\ ipc'[w] # ipc[w]
          \/ \E w \in IW : ipc'[w] # ipc[w] /\ state.status = IntakeFrom(ipc[w])
          \/ \E w \in RW : rpc'[w] # rpc[w] /\ state.status = ResolverFrom(rpc[w])
          \/ \E w \in WW : wpc'[w] # wpc[w] /\ state.status = WatchdogFrom(wpc[w])
          \/ /\ ipc' = ipc /\ rpc' = rpc /\ wpc' = wpc
             /\ state.status = "DIAGNOSED" /\ state'.status = "RESOLVING"
      ]_vars
    /\ [][ \A w \in IW : unknown'[w] # unknown[w] =>
             \/ ipc[w] = "idle" /\ unknown'[w] = write_initial_state(NoItem)
             \/ ipc[w] = "malformed_failed" /\ unknown[w].status = "RECEIVED"
        ]_vars

\* C4 witness: the record has gone through creation and conditional updates of all three roles.
C4_Witness == state.status = "FAILED" /\ state.error_reason = "max retries (2) exhausted"

\* C5: a worker whose conditional update was rejected stops: the only thing that
\* follows in that invocation is its end, with no further call on the record.
C5_LoserStops ==
    [][ /\ \A w \in IW : (ilost[w] /\ ipc'[w] # ipc[w]) => ack' = "crashed"
        /\ \A w \in RW : (rlost[w] /\ rpc'[w] # rpc[w]) => ack' = "crashed" ]_vars

\* the record is in the state a handoff message is for
ResolvingEligible(item) == item.exists /\ item.status \in {"DIAGNOSED", "RESOLVING"}

\* C6: Resolution starts its reasoning loop only for a record in the
\* diagnosed/RESOLVING-eligible state that no other Resolution worker holds, and
\* a Resolution worker writes audit or proposal only for such a record.
C6_ActsOnlyWhenEligible ==
    [][ \A w \in RW :
          /\ (rpc[w] = "idle" /\ rpc'[w] = "run_agent")
               => (ResolvingEligible(state) /\ \A v \in RW \ {w} : rpc[v] = "idle")
          /\ (rpc'[w] # rpc[w] /\ (audit' # audit \/ state'.proposal # state.proposal))
               => ResolvingEligible(state) ]_vars

\* the states the claim calls handled: every status but RECEIVED and stale INVESTIGATING
Handled(item) ==
    /\ item.exists
    /\ item.status \in Status \ {"RECEIVED"}
    /\ ~(item.status = "INVESTIGATING" /\ item.age > INTAKE_STALE_MINUTES)

\* C7: an Intake invocation with the triggering event of a record in a handled state
\* returns "already handled" and writes nothing to the state store, the bus or any
\* other table; the record is still in a handled state, so that a second invocation
\* gets the same answer.
C7_AlreadyHandled ==
    [][ \A w \in IW : (IntakeDedup(w) /\ Handled(state))
          => /\ ack' = "already handled"
             /\ ipc'[w] = "idle"
             /\ UNCHANGED <<storeVars, bus, published, unknown>>
             /\ Handled(state') ]_vars

\* C7 witness: an invocation for a record that already has its proposal was answered "already handled".
C7_Witness == ack = "already handled" /\ state.status = "PROPOSED"

\* C8: the Watchdog never publishes more than MAX_RETRIES handoff messages for the
\* incident, and a record the Watchdog has given up is FAILED with "exhausted".
C8_RetryBound == published <= MAX_RETRIES

\* C9: with Watchdog invocations only, the record is transitioned at most once
\* (out of INVESTIGATING or PROPOSAL_FAILED, into FAILED or RESOLVING, which no
\* Watchdog leaves), at most one message is published for it (no more publishes
\* than its retry count, which rises only with the one retry), and an invocation
\* whose conditional update is rejected ends without publishing.
C9_WatchdogIdempotent ==
    /\ [](published <= state.retry_count)
    /\ [][ /\ state'.status # state.status
                => /\ state.status \in {"INVESTIGATING", "PROPOSAL_FAILED"}
                   /\ state'.status \in {"FAILED", "RESOLVING"}
           /\ state'.retry_count # state.retry_count
                => /\ state.status = "PROPOSAL_FAILED" /\ state'.status = "RESOLVING"
                   /\ state'.retry_count = state.retry_count + 1
           /\ \A w \in WW :
                (wpc[w] = "retry_proposal" /\ wpc'[w] # wpc[w] /\ ~cas_ok(state, "PROPOSAL_FAILED"))
                => (wpc'[w] = "idle" /\ published' = published /\ bus' = bus /\ state' = state)
         ]_vars

\* C9 witness: one Watchdog has retried the record and published; the other, which
\* had scanned the same PROPOSAL_FAILED record, is about to lose its conditional update.
C9_Witness ==
    /\ state.status = "RESOLVING"
    /\ published = state.retry_count
    /\ \E w \in WW : wpc[w] = "retry_proposal"
    /\ ack = "retried 1/1"

\* C10: every record eventually reaches PROPOSED or FAILED.
C10_EventuallyTerminal ==
    [](state.exists => <>(state.status \in {"PROPOSED", "FAILED"}))

\* C11: PROPOSED and FAILED are terminal: no step of any role changes the status
\* of a record that is PROPOSED or FAILED (nor of the FAILED record of a malformed event).
C11_TerminalStatuses ==
    [][ /\ state.status \in {"PROPOSED", "FAILED"} => state'.status = state.status
        /\ \A w \in IW : (ipc[w] # "idle" /\ unknown[w].status = "FAILED")
             => unknown'[w].status = "FAILED" ]_vars

\* C11 witness: a late handoff message has been processed for a record that was
\* already PROPOSED, and its conditional update was rejected.
C11_Witness == state.status = "PROPOSED" /\ rlost[1]

\* C12: an Intake invocation that finds the record in RECEIVED does not create it
\* again (no write, next call is the RECEIVED -> INVESTIGATING update), and that
\* update, when accepted, leaves the record INVESTIGATING with the reasoning call
\* next, as for a new incident.
C12_CrashRecovery ==
    [][ \A w \in IW :
          /\ (IntakeDedup(w) /\ state.exists /\ state.status = "RECEIVED")
               => (ipc'[w] = "to_investigating" /\ UNCHANGED <<storeVars, bus, published>>)
          /\ (ipc[w] = "to_investigating" /\ ipc'[w] # ipc[w] /\ ack' # "crashed"
                /\ cas_ok(state, "RECEIVED"))
               => (state'.status = "INVESTIGATING" /\ ipc'[w] = "run_agent") ]_vars

\* C12 witness: the record left behind by the crashed creator has been resumed and diagnosed.
C12_Witness == state.status = "DIAGNOSED" /\ ack = "DIAGNOSED"

\* C13: an Intake invocation that finds the record INVESTIGATING and older than the
\* staleness window resets it to RECEIVED by a conditional update and goes on to
\* the RECEIVED -> INVESTIGATING update; one that finds it within the window
\* returns "already handled" and writes nothing.
C13_StaleReset ==
    [][ \A w \in IW :
          /\ (IntakeDedup(w) /\ state.status = "INVESTIGATING" /\ state.age > INTAKE_STALE_MINUTES)
               => (ipc'[w] = "reset_stale" /\ UNCHANGED <<storeVars, bus, published>>)
          /\ (ipc[w] = "reset_stale" /\ ipc'[w] # ipc[w] /\ ack' # "crashed"
                /\ cas_ok(state, "INVESTIGATING"))
               => (state'.status = "RECEIVED" /\ ipc'[w] = "to_investigating")
          /\ (IntakeDedup(w) /\ state.status = "INVESTIGATING" /\ state.age <= INTAKE_STALE_MINUTES)
               => (ack' = "already handled" /\ ipc'[w] = "idle"
                   /\ UNCHANGED <<storeVars, bus, published>>) ]_vars

\* C13 witness: a record whose diagnosis had been stored by a worker that died is
\* RECEIVED again after the reset, with the RECEIVED -> INVESTIGATING update next.
C13_Witness ==
    state.status = "RECEIVED" /\ context = "diagnosis" /\ ipc[1] = "to_investigating"

\* no invocation of Intake or Resolution is running and no handoff message is in flight
Quiescent ==
    /\ \A w \in IW : ipc[w] = "idle"
    /\ \A w \in RW : rpc[w] = "idle"
    /\ bus = [diag |-> 0, empty |-> 0]

\* C14: the happy path ends in PROPOSED: when nothing is running or in flight any
\* more, a record that met no failure (no error_reason) and was not abandoned by a
\* crashed worker (RECEIVED, INVESTIGATING, RESOLVING) has status PROPOSED.
C14_HappyPathEndsProposed ==
    (/\ Quiescent
     /\ state.exists
     /\ state.error_reason = ""
     /\ state.status \notin {"RECEIVED", "INVESTIGATING", "RESOLVING"})
    => state.status = "PROPOSED"

\* the Intake handler has just returned the acknowledgment of a successful diagnosis
DiagnosisAcked == ack \in {"DIAGNOSED", "RESOLVING"}

\* C15: when Intake returns from a successful diagnosis it has published the
\* handoff message with the incident id and the diagnosis.
C15_DiagnosisHandedOff == DiagnosisAcked => bus.diag >= 1

\* C16: when Intake returns from a successful diagnosis the record reads RESOLVING
\* and the acknowledgment reports status RESOLVING.
C16_AckResolving == DiagnosisAcked => (ack = "RESOLVING" /\ state.status = "RESOLVING")

\* C17: a Resolution step on a record in RESOLVING ends it in PROPOSED when the
\* loop returned a proposal and in PROPOSAL_FAILED on every error (no proposal,
\* AgentError, unexpected exception); no Resolution step writes FAILED.
C17_ResolutionOutcomes ==
    [][ \A w \in RW :
          /\ (rpc'[w] # rpc[w] /\ ack' # "crashed" /\ cas_ok(state, "RESOLVING"))
               => /\ rpc[w] = "to_proposed"
                       => (state'.status = "PROPOSED" /\ ack' = "PROPOSED")
                  /\ rpc[w] = "fail_no_proposal"
                       => (state'.status = "PROPOSAL_FAILED" /\ ack' = "PROPOSAL_FAILED")
                  /\ (rpc[w] \in {"run_agent", "except_exception"} /\ rpc'[w] = "idle")
                       => state'.status = "PROPOSAL_FAILED"
          /\ (rpc'[w] # rpc[w] /\ state'.status = "FAILED") => state.status = "FAILED" ]_vars

\* C17 witness: an unexpected exception in Resolution has left the record in PROPOSAL_FAILED.
C17_Witness ==
    state.status = "PROPOSAL_FAILED" /\ state.error_reason = "exception" /\ ack = "raised"

\* C18: pass 1 of the Watchdog selects the record exactly when it is INVESTIGATING
\* and older than 10 minutes; its conditional update then leaves it FAILED with the
\* stale-timeout reason, or, when the record has moved, leaves it untouched; either
\* way the run goes on with pass 2.
C18_WatchdogPassOne ==
    [][ \A w \in WW :
          /\ WatchdogScanStale(w)
               => /\ (wpc'[w] = "transition_to_failed")
                       <=> (state.exists /\ state.status = "INVESTIGATING"
                              /\ state.age > STALE_THRESHOLD_MINUTES)
                  /\ wpc'[w] \in {"transition_to_failed", "scan_failed_proposals"}
                  /\ state' = state
          /\ (wpc[w] = "transition_to_failed" /\ wpc'[w] # wpc[w] /\ ack' # "crashed")
               => /\ wpc'[w] = "scan_failed_proposals"
                  /\ IF cas_ok(state, "INVESTIGATING")
                     THEN /\ state'.status = "FAILED"
                          /\ state'.error_reason = "stale watchdog timeout"
                     ELSE state' = state ]_vars

\* C18 witness: the Watchdog has just failed a stale INVESTIGATING record and goes on with pass 2.
C18_Witness ==
    /\ state.status = "FAILED" /\ state.error_reason = "stale watchdog timeout"
    /\ state.age = 0
    /\ wpc[1] = "scan_failed_proposals"

\* C19: pass 2 of the Watchdog selects the record exactly when it is PROPOSAL_FAILED
\* and older than 5 minutes; with its retry_count >= 2 the conditional update
\* leaves it FAILED with the exhausted reason and nothing is published; otherwise
\* the update leaves it RESOLVING with retry_count + 1 and the run publishes one
\* handoff message.
C19_WatchdogPassTwo ==
    [][ \A w \in WW :
          /\ WatchdogScanFailed(w)
               => /\ (wpc'[w] = "retry_proposal")
                       <=> (state.exists /\ state.status = "PROPOSAL_FAILED"
                              /\ state.age > RETRY_THRESHOLD_MINUTES)
                  /\ wpc'[w] = "retry_proposal" => wsnap'[w] = state.retry_count
          /\ (wpc[w] = "retry_proposal" /\ wpc'[w] # wpc[w] /\ ack' # "crashed"
                /\ cas_ok(state, "PROPOSAL_FAILED"))
               => IF wsnap[w] >= MAX_RETRIES
                  THEN /\ state'.status = "FAILED"
                       /\ state'.error_reason = "max retries (2) exhausted"
                       /\ wpc'[w] = "idle"
                       /\ published' = published /\ bus' = bus
                  ELSE /\ state'.status = "RESOLVING"
                       /\ state'.retry_count = wsnap[w] + 1
                       /\ wpc'[w] = "publish"
          /\ (wpc[w] = "publish" /\ wpc'[w] # wpc[w] /\ ack' # "crashed")
               => /\ published' = published + 1
                  /\ bus'.diag + bus'.empty = bus.diag + bus.empty + 1
                  /\ wpc'[w] = "idle" ]_vars

\* C19 witness: the Watchdog has retried the record a second time and published the message.
C19_Witness == state.status = "RESOLVING" /\ state.retry_count = 2 /\ ack = "retried 1/1"

C21_MalformedPayload ==
    [][\A w \in IW :
        /\ (ipc[w] = "idle" /\ ipc'[w] = "malformed_failed")
              => /\ unknown'[w].exists /\ unknown'[w].status = "RECEIVED"
                 /\ UNCHANGED <<storeVars, bus>>
        /\ (ipc[w] = "malformed_failed" /\ ipc'[w] # ipc[w])
              => /\ ipc'[w] = "idle"
                 /\ UNCHANGED <<storeVars, bus>>
                 /\ ack' # "raised"
                 /\ ack' # "crashed"
                       => /\ ack' = "FAILED"
                          /\ unknown'[w].status = "FAILED"
                          /\ unknown'[w].error_reason = "Malformed SNS payload"]_vars

C21_Witness ==
    /\ ack = "FAILED"
    /\ unknown[1].status = "FAILED"
    /\ unknown[1].error_reason = "Malformed SNS payload"
    /\ ~state.exists

AttemptFailed == agent.raised = "none" /\ agent'.raised # "none" /\ agent.pc # "idle"

\* the retry policy of run_agent: a transient failure of the first attempt is followed by
\* one sleep of 2^0 = 1 second and the second attempt; a failure of the second attempt ends
\* the call without a sleep, with the category of that failure; never more than two attempts
RetryPolicy ==
    /\ (AttemptFailed /\ agent.attempt = 0 /\ agent'.category \notin PERMANENT_CATEGORIES)
          => /\ agent'.pc = "execute_agent"
             /\ agent'.attempt = 1
             /\ agent'.sleeps = <<1>>
    /\ (AttemptFailed /\ agent.attempt = 1)
          => /\ agent'.pc = "returned"
             /\ agent'.result = "agent_error"
             /\ agent'.category = classify_error(Exc(agent'.raised))
             /\ agent'.sleeps = <<1>>
             /\ agent'.calls = 2
    /\ agent'.calls <= 2
    /\ Len(agent'.sleeps) <= 1

\* the handler's step that follows a reasoning call which succeeded at its second attempt
RetrySucceeded ==
    /\ agent.pc = "returned"
    /\ agent.result = "outcome"
    /\ agent.calls = 2

\* C23: a transient failure of an attempt is retried, two attempts at most, one backoff
\* of 1 second before the second attempt and none after the last; when the second
\* attempt succeeds the stage ends successfully (its handler goes on to store the
\* outcome and raises nothing); when both fail the error carries the last category.
C23_RetryThenSucceed ==
    [][/\ RetryPolicy
       /\ (RetrySucceeded /\ ipc[1] = "run_agent" /\ ipc'[1] # "run_agent")
             => (ipc'[1] = "store_audit" /\ context' = "diagnosis" /\ state'.status # "FAILED")
       /\ (RetrySucceeded /\ rpc[1] = "run_agent" /\ rpc'[1] # "run_agent")
             => (rpc'[1] = "store_proposal" /\ state'.status # "PROPOSAL_FAILED")]_vars

\* ---------------------------------------------------------------- C24
\* C24 as stated: whenever an attempt fails with a permanent error (authorization, or
\* an error without a class of its own), exactly one attempt has been made and no
\* backoff sleep has occurred.
C24_PermanentOneAttempt ==
    [][(AttemptFailed /\ agent'.category \in {"bedrock_auth", "unknown"})
          => /\ agent'.pc = "returned"
             /\ agent'.calls = 1
             /\ agent'.sleeps = <<>>]_vars

\* C24, amended: an attempt that fails with a permanent error ends the reasoning call at
\* once: no attempt and no sleep follows it (so a first attempt that fails permanently is
\* the only attempt, without any sleep, while a second attempt that fails permanently
\* comes after the one sleep of the retry), and the handler records the classified error
\* with the stage's failure transition.
C24_PermanentEndsCall ==
    [][/\ (AttemptFailed /\ agent'.category \in {"bedrock_auth", "unknown"})
             => /\ agent'.pc = "returned"
                /\ agent'.result = "agent_error"
                /\ agent'.calls = agent.attempt + 1
                /\ agent'.sleeps = agent.sleeps
                /\ Len(agent'.sleeps) = agent.attempt
       /\ (/\ agent.pc = "returned"
           /\ agent.result = "agent_error"
           /\ agent.category \in {"bedrock_auth", "unknown"}
           /\ \/ ipc[1] = "run_agent" /\ ipc'[1] # "run_agent"
              \/ rpc[1] = "run_agent" /\ rpc'[1] # "run_agent")
             => /\ state'.status = (IF agent.stage = "intake" THEN "FAILED" ELSE "PROPOSAL_FAILED")
                /\ state'.error_category = agent.category
                /\ ack' = state'.status]_vars

C24_Witness ==
    /\ agent.pc = "returned"
    /\ agent.calls = 2
    /\ agent.sleeps = <<1>>
    /\ agent.category = "unknown"
    /\ state.status = "PROPOSAL_FAILED"
    /\ state.error_category = "unknown"

\* ---------------------------------------------------------------- C25
\* C25: a run of the graph never takes more than its recursion limit of steps, 12 for
\* Intake and 8 for Resolution: every step of the loop adds one to the step count, and
\* at the limit the only thing the run can do is end with GraphRecursionError, whatever
\* the reasoning service answered and whether or not the deadline is near.
C25_BoundedSteps ==
    [][/\ agent'.stage = "intake" => agent'.steps <= 12
       /\ agent'.stage = "resolver" => agent'.steps <= 8
       /\ (/\ agent.pc \in GraphNodes
           /\ agent'.pc \in GraphNodes
           /\ agent'.attempt = agent.attempt
           /\ agent'.deadline_near = agent.deadline_near)
             => agent'.steps = agent.steps + 1
       /\ (/\ agent.pc \in GraphNodes
           /\ agent.steps >= (IF agent.stage = "intake" THEN 12 ELSE 8)
           /\ agent'.deadline_near = agent.deadline_near)
             => /\ agent'.raised = "GraphRecursionError"
                /\ agent'.pc \in {"returned", "execute_agent"}
                /\ agent'.steps = 0]_vars

C25_Witness ==
    /\ agent.stage = "intake"
    /\ agent.steps = 12
    /\ agent.pc = "agent_reason"
    /\ ~agent.deadline_near
    /\ agent.tool_messages = <<"raw_response">>

\* ---------------------------------------------------------------- C26
\* node agent_reason has just received a plain-text response (no tool call)
PlainTextResponse ==
    /\ agent.pc = "agent_reason"
    /\ agent'.steps = agent.steps + 1
    /\ agent'.last = <<>>

\* the nudge discipline for the stages in a set: plain text without an earlier nudge leads
\* to the nudge node, which appends the directive, sets nudged and hands over to one more
\* reasoning call; plain text after a nudge ends the run without an outcome; one nudge at most
NudgeDiscipline(stages) ==
    agent.stage \in stages =>
        /\ (PlainTextResponse /\ ~agent.nudged) => agent'.pc = "nudge"
        /\ (PlainTextResponse /\ agent.nudged)
              => (agent'.pc = "returned" /\ agent'.result = "none")
        /\ (agent.pc = "nudge" /\ agent'.steps = agent.steps + 1)
              => (agent'.pc = "agent_reason" /\ agent'.nudged /\ agent'.nudges = agent.nudges + 1)
        /\ agent'.nudges <= 1

\* C26: in the reasoning loop of Intake and in that of Resolution, a plain-text response
\* with no outcome and no nudge so far is answered by one nudge and one more reasoning
\* call; a plain-text response after the nudge ends the loop with no outcome.
C26_NudgeOnce == [][NudgeDiscipline({"intake", "resolver"})]_vars

\* ---------------------------------------------------------------- C27
\* node execute_tools runs on the tool calls of the last message, below the recursion
\* limit, and no call to the evidence provider fails at the transport level
ToolsStep ==
    /\ agent.pc = "execute_tools"
    /\ agent.steps < RECURSION_LIMIT(agent.stage)
    /\ agent'.deadline_near = agent.deadline_near
    /\ \A i \in DOMAIN agent.last : agent.last[i].response # "raises"

\* C27: for the tool calls of a reasoning step other than the submission tool, rejected
\* arguments or an unregistered name give an error result without a call to the evidence
\* provider, a response that is not JSON or that the response schema does not accept
\* gives an error result, the loop goes on to the next reasoning call, and every call
\* has exactly one result message.
C27_ValidationFedBack ==
    [][ToolsStep =>
          /\ agent'.pc = "agent_reason"
          /\ Len(agent'.tool_messages) = Len(agent.last)
          /\ agent'.provider_calls =
                Cardinality({i \in DOMAIN agent.last :
                                agent.last[i].name = "evidence" /\ agent.last[i].args = "valid"})
          /\ \A i \in DOMAIN agent.last :
                (agent.last[i].response # "valid")
                   <=> (agent'.tool_messages[i] # "raw_response")]_vars

\* ---------------------------------------------------------------- C28
\* C28: when the arguments of a submit_diagnosis / submit_proposal call fail validation
\* against the outcome schema, the failure stays in the loop as feedback to the reasoning
\* service: no exception leaves the graph, the reasoning call is not ended by it, and the
\* stage makes no failure transition because of it.
C28_SubmissionErrorStaysInLoop ==
    [][/\ (/\ agent.pc = "extract"
           /\ agent.steps < RECURSION_LIMIT(agent.stage)
           /\ first_submit(agent.last).args = "invalid"
           /\ agent'.deadline_near = agent.deadline_near)
             => /\ agent'.raised = "none"
                /\ agent'.pc = "agent_reason"
       /\ agent'.raised # "ValidationError"]_vars

\* ---------------------------------------------------------------- C29
\* C29: an outcome is stored at most once per incident and stage and is never changed
\* afterwards: once the diagnosis is in the context store no operation writes the context
\* item again, once the proposal is on the record no operation writes it again, and
\* neither is ever removed.
C29_OutcomeStoredOnce ==
    [][/\ context = "diagnosis"
             => /\ context' = "diagnosis"
                /\ ~\E w \in IW : ipc[w] = "run_agent" /\ ipc'[w] = "store_audit"
       /\ state.proposal
             => /\ state'.proposal
                /\ ~\E w \in RW : rpc[w] = "store_proposal" /\ rpc'[w] = "to_proposed"]_vars

\* ---------------------------------------------------------------- C30
\* C30: a record of the incident state store comes into existence only by Intake's
\* insert-if-absent (write_initial_state, on the id of the event or on a synthetic id);
\* no step of Resolution or of the Watchdog creates one, not even for a handoff message
\* naming an id without a record; and no step deletes a record.
C30_OnlyIntakeCreates ==
    [][/\ (~state.exists /\ state'.exists)
             => \E w \in IW : ipc[w] = "write_initial_state" /\ ipc'[w] # ipc[w]
       /\ state.exists => state'.exists
       /\ \A w \in IW :
             /\ (~unknown[w].exists /\ unknown'[w].exists)
                   => (ipc[w] = "idle" /\ ipc'[w] = "malformed_failed")
             /\ (unknown[w].exists /\ ipc[w] # "idle") => unknown'[w].exists]_vars

\* ---------------------------------------------------------------- C31
\* a write of this step has set the status of the record to a failure status
FailureTransition ==
    /\ state'.status \in {"FAILED", "PROPOSAL_FAILED"}
    /\ state'.status # state.status

\* the same for the record of a malformed event of Intake worker w
UnknownFailureTransition(w) ==
    /\ unknown'[w].status = "FAILED"
    /\ unknown[w].status # "FAILED"

C32_RetryCountBounded ==
    /\ [](state.retry_count \in 0..2)
    /\ [](\A w \in IW : unknown[w].retry_count = 0)
    /\ [][state'.retry_count # state.retry_count
             => /\ state.status = "PROPOSAL_FAILED"
                /\ state'.status = "RESOLVING"
                /\ \E w \in WW : wpc[w] = "retry_proposal" /\ wpc'[w] = "publish"
                /\ ipc' = ipc
                /\ rpc' = rpc]_vars

\* C32 witness: the record has been re-driven twice and Resolution has failed again
C32_Witness ==
    /\ state.retry_count = 2
    /\ state.status = "PROPOSAL_FAILED"
    /\ ack = "PROPOSAL_FAILED"

\* ---------------------------------------------------------------- C33
\* C33: with a positive budget no step of truncate_to_budget makes the token estimate of
\* the bundle larger, so the estimate of what it returns is at most the estimate of what
\* it was given; and called on a bundle within budget it returns the bundle unchanged
\* with empty details.
C33_MonotonicIdempotent ==
    /\ [][(truncation.budget > 0 /\ truncation'.calls = truncation.calls)
             => estimate_tokens(truncation'.context) <= estimate_tokens(truncation.context)]_vars
    /\ []((truncation.pc = "returned" /\ truncation.budget > 0)
             => estimate_tokens(truncation.context) <= estimate_tokens(truncation.input))
    /\ [][(/\ truncation.pc = "truncate_to_budget"
           /\ truncation.budget > 0
           /\ estimate_tokens(truncation.context) <= truncation.budget)
             => /\ truncation'.pc = "returned"
                /\ truncation'.context = truncation.context
                /\ truncation'.details = NoDetails]_vars

\* ---------------------------------------------------------------- C34
\* the bundle of the truncate_to_budget call in progress is over its budget
OverBudget == estimate_tokens(truncation.context) > truncation.budget

\* pass 1 has nothing left to drop; pass 2 has nothing left to collapse
NoEventLeft == truncation.context.logs # "events" \/ truncation.context.events = <<>>
NoDocumentLeft ==
    \A i \in DOMAIN truncation.context.policies : truncation.context.policies[i].kind # "document"

\* C34: the passes run in the order (1) drop log events, (2) collapse policy documents
\* to their Sids, (3) drop the lambda configuration.  Pass 1 removes the oldest event,
\* one per iteration and only while the bundle is over budget and an event is left, so
\* what remains is the newest events in their order; pass 2 changes the bundle only if
\* it is still over budget when pass 1 has no event left to drop; pass 3 only if it is
\* still over budget after pass 2 has collapsed every document; the call returns a
\* bundle within budget or one on which every pass has been applied; a budget <= 0
\* changes nothing.
C34_OrderedPasses ==
    /\ [][truncation'.calls = truncation.calls =>
             /\ truncation'.context.events # truncation.context.events
                   => /\ truncation.pc = "pop"
                      /\ OverBudget
                      /\ truncation'.context.events = Tail(truncation.context.events)
                      /\ truncation'.context.policies = truncation.context.policies
                      /\ truncation'.context.config = truncation.context.config
                      /\ ~truncation.details.trimmed
                      /\ ~truncation.details.dropped
             /\ truncation'.context.policies # truncation.context.policies
                   => /\ truncation.pc = "trim_iam_to_sids"
                      /\ OverBudget
                      /\ NoEventLeft
                      /\ truncation'.context.events = truncation.context.events
                      /\ truncation'.context.config = truncation.context.config
                      /\ ~truncation.details.dropped
                      /\ truncation'.details.trimmed
             /\ truncation'.context.config # truncation.context.config
                   => /\ truncation.pc = "drop_lambda_config"
                      /\ OverBudget
                      /\ NoEventLeft
                      /\ NoDocumentLeft
                      /\ truncation'.details.dropped
             /\ (truncation.pc = "pop" /\ ~OverBudget)
                   => /\ truncation'.context = truncation.context
                      /\ truncation'.pc = "trim_iam_to_sids"
             /\ (truncation.pc = "pop" /\ OverBudget /\ ~NoEventLeft)
                   => /\ truncation'.context.events = Tail(truncation.context.events)
                      /\ truncation'.pc = "pop"
             /\ truncation.budget <= 0 => truncation'.context = truncation.context]_vars
    /\ [](truncation.pc # "idle" =>
             LET given == truncation.input.events
                 kept == truncation.context.events
             IN  /\ Len(kept) <= Len(given)
                 /\ kept = SubSeq(given, Len(given) - Len(kept) + 1, Len(given)))
    /\ []((truncation.pc = "returned" /\ truncation.budget > 0 /\ OverBudget)
             => /\ NoEventLeft
                /\ NoDocumentLeft
                /\ truncation.context.config < 0 \/ truncation.details.dropped)

\* C34 witness: pass 1 dropped the oldest of three events and stopped, the bundle being
\* within budget with two events left; the policy document and the configuration are untouched
C34_Witness ==
    /\ truncation.pc = "returned"
    /\ truncation.input.events = <<200, 30, 30>>
    /\ truncation.context.events = <<30, 30>>
    /\ truncation.details.events_dropped = 1
    /\ ~truncation.details.trimmed
    /\ ~truncation.details.dropped
    /\ ~NoDocumentLeft
    /\ truncation.context.config = 300

\* ---------------------------------------------------------------- C35
\* C35: a worker that has been superseded cannot complete the incident.  Intake worker 1
\* is superseded while worker 2 holds the record (worker 2 can only have got it by
\* resetting worker 1's INVESTIGATING claim and taking it again); Resolution worker 1 is
\* superseded once the record has a retry count (its RESOLVING claim has gone through
\* PROPOSAL_FAILED and the Watchdog's retry).  No step of a superseded worker changes
\* the record: its final status write is rejected.
C35_SupersededIsFenced ==
    [][/\ (IntakeActive(2) /\ ipc'[1] # ipc[1]) => state' = state
       /\ (state.retry_count >= 1 /\ rpc'[1] # rpc[1]) => state' = state]_vars

\* ---------------------------------------------------------------- C36
\* C36: over every interleaving of Watchdog invocations and Resolution failures, a
\* successful retry transition PROPOSAL_FAILED -> RESOLVING leaves the stored
\* retry_count exactly one above what it was; the stored count never goes down and
\* never stays the same across a retry.
C36_RetryIncrements ==
    [][/\ (state.status = "PROPOSAL_FAILED" /\ state'.status = "RESOLVING")
             => state'.retry_count = state.retry_count + 1
       /\ state'.retry_count >= state.retry_count]_vars

\* ---------------------------------------------------------------- C37
\* C37: of two Intake invocations that both found no record, the insert of the first to
\* write succeeds and creates the record, the insert of the other is rejected and that
\* invocation ends there, raising, without any further write; so at most one of the two
\* goes on, and the one that goes on performs RECEIVED -> INVESTIGATING and calls the
\* diagnosis.
C37_InsertRace ==
    /\ [][\A w \in IW :
             /\ (ipc[w] = "write_initial_state" /\ ipc'[w] # ipc[w] /\ ack' # "crashed")
                   => IF state.exists
                      THEN /\ ipc'[w] = "idle"
                           /\ ack' = "raised"
                           /\ UNCHANGED <<state, context, audit, bus, unknown>>
                      ELSE /\ state' = [NoItem EXCEPT !.exists = TRUE, !.status = "RECEIVED"]
                           /\ ipc'[w] = "to_investigating"
             /\ (ipc[w] = "to_investigating" /\ ipc'[w] # ipc[w] /\ ack' # "crashed")
                   => /\ state.status = "RECEIVED"
                      /\ state'.status = "INVESTIGATING"
                      /\ ipc'[w] = "run_agent"]_vars
    /\ [](Cardinality({w \in IW : ipc[w] \notin {"write_initial_state", "idle"}}) <= 1)

\* C37 witness: the insert of one invocation has been rejected and the invocation has
\* ended; the other one is in the diagnosis
C37_Witness ==
    /\ state.status = "INVESTIGATING"
    /\ \E w \in IW : ipc[w] = "run_agent"
    /\ \E w \in IW : ipc[w] = "idle"
    /\ context = "none"

\* ---------------------------------------------------------------- C38
\* C38: the outcome is stored before the success status is visible: a DIAGNOSED record
\* has its diagnosis in the context store, a PROPOSED record has its proposal on it.
C38_OutcomeBeforeStatus ==
    /\ state.status = "DIAGNOSED" => context = "diagnosis"
    /\ state.status = "PROPOSED" => state.proposal

\* C38 witness: Resolution has just written PROPOSED
C38_Witness ==
    /\ state.status = "PROPOSED"
    /\ state.proposal
    /\ context = "diagnosis"
    /\ ack = "PROPOSED"


\* C39: every retry handoff message the Watchdog publishes carries the diagnosis
\* stored for the incident, and no Resolution invocation drops a message as a
\* malformed payload while the record is RESOLVING
C39_RetryCarriesDiagnosis ==
    [][ /\ \A w \in WW :
              (wpc[w] = "publish" /\ wpc'[w] = "idle" /\ ack' = "retried 1/1")
                  => /\ bus'.diag = bus.diag + 1
                     /\ bus'.empty = bus.empty
        /\ ack' = "malformed payload" => state.status # "RESOLVING" ]_vars


\* the serialized chain of the call is over the ceiling
OverCeiling == ChainBytes(transcript.chain) > AUDIT_CEILING

\* C40: the stored reasoning chain is an order-preserving subsequence of the chain
\* handed to _store_audit, with no step twice and never longer than the original;
\* over the ceiling it is the first step and the last three with reasoning_truncated
\* set, at or below the ceiling it is the chain itself
C40_TruncatedForStorageOnly ==
    (transcript.pc = "stored" /\ transcript.has_chain) =>
        /\ Len(transcript.stored) <= Len(transcript.chain)
        /\ \A i \in DOMAIN transcript.stored :
              /\ transcript.stored[i].id \in DOMAIN transcript.chain
              /\ transcript.stored[i] = transcript.chain[transcript.stored[i].id]
        /\ \A i, j \in DOMAIN transcript.stored :
              i < j => transcript.stored[i].id < transcript.stored[j].id
        /\ OverCeiling =>
              /\ transcript.reasoning_truncated
              /\ transcript.stored = FirstStep(transcript.chain) \o LastThree(transcript.chain)
        /\ ~OverCeiling =>
              /\ ~transcript.reasoning_truncated
              /\ transcript.stored = transcript.chain

====
